---- MODULE Spec2Model ----
(***************************************************************************)
(* Creative Cloner: the orchestration layer of tools/generate_images.py,   *)
(* tools/generate_videos.py and tools/log_to_airtable.py, the polling loop *)
(* poll_task_status of both generators, tools/combine_all.py and           *)
(* tools/create_prompts.py.                                                *)
(*                                                                         *)
(* Spec      the operator runs the stage tools one after another against   *)
(*           the Airtable table 'Scenes'.                                  *)
(* PollSpec  one invocation of poll_task_status against a wall clock.      *)
(* OrderSpec one generator run walking the rows its table query returned.  *)
(* SubmitSpec truncate_prompt and the createTask payload of one scene.     *)
(* CombineSpec one run of combine_all.py on a directory of clips.          *)
(* CreateSpec one run of create_prompts.py on an analysis.                 *)
(* InterruptSpec the tools of Spec and combine_all.py, run one at a time   *)
(*           and interrupted by the operator at any point.                 *)
(*                                                                         *)
(* Time is in whole seconds, money in thousandths of a dollar.  A text     *)
(* field of a record is modelled by whether it is non-empty, an            *)
(* attachment field by its list of URLs.                                   *)
(***************************************************************************)
EXTENDS Integers, Sequences, FiniteSets, TLC

\* ---------------------------------------------------------------- bounds
\* Records the table ever holds (Airtable never reuses a record id).
MaxRec == 3
\* Prompts in one prompts file handed to the logging stage.
MaxPrompts == 2
\* Seconds a status request may take to be answered.
MaxLatency == 1
\* Rows one table.all query returns to a generator.
MaxRows == 2
\* Pieces a prompt text is put together from.
MaxBlocks == 4
\* Video files of the directory combine_all.py looks into.
MaxFiles == 3

VARIABLES
    \* the Airtable table 'Scenes' and its id allocator
    store, next_id,
    \* the running tool, its position, its arguments and its locals
    stage, pc, args, scenes, i, successful, failed, actual_cost,
    result_urls, exit_code, summary,
    \* what the run has done so far (observations, never read by the tools)
    requests, writes, answered, failed_ids, video_done,
    \* whether the provider rejected the run's last createTask request, and the
    \* seconds the loop slept since that request
    rejected, slept,
    \* the clips the video tool saved to outputs/: the number in the file's
    \* name and the record of the scene
    clips,
    \* one invocation of poll_task_status: which tool's, the wall clock, its
    \* start_time, its position and how it ended; the kind of the last answer
    \* it got and whether every state it was told so far was a pending one
    job, now, start_time, ppc, outcome, last_resp, only_pending,
    \* one batch of a generator seen by itself: the rows table.all returned, in
    \* the order it returned them, the tool, the list its
    \* get_scenes_from_airtable made of them, and the rows its loop took so far
    returned, otool, batch, visited,
    \* one prompt on its way to createTask: the prompt text, the model, the URL
    \* of the uploaded reference image ("None" without one), how far the
    \* prompt got, truncate_prompt's result for it and for that result, and the
    \* payload built from it
    ptext, model_name, reference_image_url, spc, once, again, payload,
    \* one run of combine_all.py: the *.mp4 names of the input directory in the
    \* order glob yields them, the arguments, the position, find_video_files's
    \* list, whether the concat list and the temp_ intermediate video exist,
    \* what stands at the output path, the exit code, the scenes of the project
    \* whose row holds no scene_video, and the list handed to FFmpeg
    listing, cargs, cpc, video_files, concat_file, temp_output, output_file,
    cexit, lacking, handed,
    \* one run of create_prompts.py: the analysis, the description of the
    \* reference image, the position, the prompts list and the saved document
    analysis, subject_description, cpos, prompts, output_data

storeVars == <<store, next_id>>
runVars == <<stage, pc, args, scenes, i, successful, failed, actual_cost,
             result_urls, exit_code, summary>>
obsVars == <<requests, writes, answered, failed_ids, video_done, rejected, slept, clips>>
pollVars == <<job, now, start_time, ppc, outcome, last_resp, only_pending>>
orderVars == <<returned, otool, batch, visited>>
submitVars == <<ptext, model_name, reference_image_url, spc, once, again,
                payload>>
combineVars == <<listing, cargs, cpc, video_files, concat_file, temp_output,
                 output_file, cexit, lacking, handed>>
createVars == <<analysis, subject_description, cpos, prompts, output_data>>
vars == <<storeVars, runVars, obsVars, pollVars, orderVars, submitVars,
          combineVars, createVars>>

\* ------------------------------------------------------------ the table
RecIds == 1..MaxRec

PROJECT == "P"
TestProject(project_name) == IF project_name = "P" THEN "TEST-P" ELSE "TEST-TEST-P"

\* A slot of the table no record occupies (never created, or deleted).
NoRecord ==
    [Project_Name |-> "", start_image_prompt |-> FALSE, video_prompt |-> FALSE,
     start_image |-> <<>>, scene_video |-> <<>>]

\* table.all(formula="{Project Name}='<project_name>'"): the rows of the
\* project as {id, fields}, in the order of their ids.
TableAll(tbl, project_name) ==
    SelectSeq([k \in RecIds |-> [id |-> k, fields |-> tbl[k]]],
              LAMBDA r : r.fields.Project_Name = project_name
                         /\ project_name # "")

\* table.create(fields): the row gets the next unused id.
TableCreate(tbl, id, fields) == [tbl EXCEPT ![id] = fields]

\* table.update(record_id, {field: value}): one field of one row.
UpdateStartImage(tbl, record_id, image_url) ==
    [tbl EXCEPT ![record_id].start_image = <<image_url>>]

Ids(recs) == {recs[k].id : k \in 1..Len(recs)}

\* --------------------------------------------------------- the arguments
NoArgs ==
    [model |-> "", project_name |-> "", dry_run |-> FALSE,
     skip_approval |-> FALSE, test_mode |-> FALSE, skip_download |-> FALSE]

\* What the operator may type at "Ready to proceed? (yes/no): ".
RawAnswers == {"yes", "y", " Y ", "YES", "no", "", "ok"}

\* The typed lines that read 'yes' or 'y'.
SaidYes(raw) == raw \in {"yes", "y", " Y ", "YES"}

\* input(...).strip().lower()
StripLower(raw) ==
    CASE raw = " Y " -> "y"
      [] raw = "YES" -> "yes"
      [] OTHER -> raw

\* sys.exit(code), or an exception nobody catches (code 1).
Exit(code) ==
    /\ pc' = "done"
    /\ exit_code' = code

\* No exception, no result.
NoOutcome == [exc |-> "", msg |-> "", urls |-> <<>>]

\* No poll_task_status is running.
PollIdle ==
    /\ job = "none"
    /\ now = 0
    /\ start_time = 0
    /\ ppc = "idle"
    /\ outcome = NoOutcome
    /\ last_resp = "none"
    /\ only_pending = TRUE

\* No batch is looked at by itself.
OrderIdle ==
    /\ returned = <<>>
    /\ otool = "none"
    /\ batch = <<>>
    /\ visited = <<>>

\* No payload was built yet.
NoPayload == [model |-> "", input |-> <<>>]

\* No prompt is looked at by itself.
SubmitIdle ==
    /\ ptext = <<>>
    /\ model_name = ""
    /\ reference_image_url = "None"
    /\ spc = "idle"
    /\ once = <<>>
    /\ again = <<>>
    /\ payload = NoPayload

\* No combine_all.py is looked at.
CombineIdle ==
    /\ listing = <<>>
    /\ cargs = [project_name |-> <<>>, music |-> FALSE, dry_run |-> FALSE]
    /\ cpc = "idle"
    /\ video_files = <<>>
    /\ concat_file = FALSE
    /\ temp_output = FALSE
    /\ output_file = "absent"
    /\ cexit = -1
    /\ lacking = {}
    /\ handed = <<>>

\* No document was saved yet.
NoDocument == [total_scenes |-> -1, prompts |-> <<>>]

\* No create_prompts.py is looked at.
CreateIdle ==
    /\ analysis = <<>>
    /\ subject_description = <<>>
    /\ cpos = "idle"
    /\ prompts = <<>>
    /\ output_data = NoDocument

\* ------------------------------------------------------------------ Init
StageInit ==
    /\ store = [k \in RecIds |-> NoRecord]
    /\ next_id = 1
    /\ stage = "idle"
    /\ pc = "idle"
    /\ args = NoArgs
    /\ scenes = <<>>
    /\ i = 0
    /\ successful = 0
    /\ failed = 0
    /\ actual_cost = 0
    /\ result_urls = <<>>
    /\ exit_code = -1
    /\ summary = FALSE
    /\ requests = <<>>
    /\ writes = 0
    /\ answered = "not_asked"
    /\ failed_ids = {}
    /\ video_done = {}
    /\ clips = {}
    /\ rejected = FALSE
    /\ slept = 0

Init == StageInit /\ PollIdle /\ OrderIdle /\ SubmitIdle /\ CombineIdle /\ CreateIdle

\* The process has ended; the operator is back at the shell.
ProcessExit ==
    /\ pc = "done"
    /\ stage' = "idle"
    /\ pc' = "idle"
    /\ args' = NoArgs
    /\ scenes' = <<>>
    /\ i' = 0
    /\ successful' = 0
    /\ failed' = 0
    /\ actual_cost' = 0
    /\ result_urls' = <<>>
    /\ exit_code' = -1
    /\ summary' = FALSE
    /\ requests' = <<>>
    /\ writes' = 0
    /\ answered' = "not_asked"
    /\ failed_ids' = {}
    /\ rejected' = FALSE
    /\ slept' = 0
    /\ UNCHANGED <<storeVars, video_done, clips>>
    /\ UNCHANGED <<pollVars, orderVars, submitVars,
                 combineVars, createVars>>

\* ------------------------------------------------------------ load_config
\* What .agent/.env and the environment may hold: for each variable, whether
\* it is set to a non-empty value.
Envs ==
    [KIE_API_KEY : BOOLEAN, AIRTABLE_API_TOKEN : BOOLEAN,
     AIRTABLE_API_KEY : BOOLEAN, AIRTABLE_BASE_ID : BOOLEAN]

\* Mutant: the base id is not asked for.
load_config_NoBaseId(tool, env) ==
    LET airtable_token == env.AIRTABLE_API_TOKEN \/ env.AIRTABLE_API_KEY
    IN IF tool = "log" THEN airtable_token ELSE env.KIE_API_KEY /\ airtable_token

\* load_config of log_to_airtable.py (lines 29-50), generate_images.py (lines
\* 55-73) and generate_videos.py (lines 53-78): TRUE when it returns the
\* configuration, FALSE when it ends the process with sys.exit(1).
load_config(tool, env) ==
    LET airtable_token == env.AIRTABLE_API_TOKEN \/ env.AIRTABLE_API_KEY
    IN IF tool = "log"
       THEN airtable_token /\ env.AIRTABLE_BASE_ID
       ELSE env.KIE_API_KEY /\ airtable_token /\ env.AIRTABLE_BASE_ID

\* ------------------------------------------------- tools/log_to_airtable.py
\* One entry of the prompts file: whether its two prompt texts are non-empty.
PromptEntries ==
    {[image_prompt |-> TRUE, video_prompt |-> TRUE],
     [image_prompt |-> FALSE, video_prompt |-> TRUE],
     [image_prompt |-> TRUE, video_prompt |-> FALSE]}

\* clear_existing_records(table, project_name): the project's rows are deleted
\* in one batch_delete call per 10 ids; an exception of the query or of the
\* delete is printed and swallowed.  Fewer than 10 rows exist, so there is a
\* single batch, which is deleted whole or not at all.
clear_existing_records(tbl, project_name, clear_ok) ==
    IF clear_ok
    THEN [k \in RecIds |->
             IF tbl[k].Project_Name = project_name THEN NoRecord ELSE tbl[k]]
    ELSE tbl

\* The record log_prompts_to_airtable prepares for one prompt: start_image and
\* scene_video are left for the later stages.
LogRecord(prompt, project_name) ==
    [Project_Name |-> project_name,
     start_image_prompt |-> prompt.image_prompt,
     video_prompt |-> prompt.video_prompt,
     start_image |-> <<>>, scene_video |-> <<>>]

\* main(), lines 190-209: load the configuration and the prompts file and
\* clear the project's rows.  config tells whether load_config returned the
\* configuration (it ended the process otherwise).
\* i counts the prompts of the file handled so far, successful the records
\* created (len(records_created)).
LogClear(config, clear_ok) ==
    /\ stage = "idle"
    /\ cpc = "idle"
    /\ stage' = "log"
    /\ args' = [NoArgs EXCEPT !.project_name = PROJECT]
    /\ IF ~config
       THEN Exit(1) /\ UNCHANGED store
       ELSE /\ store' = clear_existing_records(store, PROJECT, clear_ok)
            /\ pc' = "create"
            /\ UNCHANGED exit_code
    /\ UNCHANGED <<next_id, scenes, i, successful, failed, actual_cost,
                   result_urls, summary, obsVars>>
    /\ UNCHANGED <<pollVars, orderVars, submitVars,
                 combineVars, createVars>>

\* log_prompts_to_airtable, lines 114-142: one table.create per prompt of the
\* file; a create that raises is printed and the loop goes on.
LogCreate(prompt, create_ok) ==
    /\ stage = "log"
    /\ pc = "create"
    /\ i < MaxPrompts
    /\ i' = i + 1
    /\ IF create_ok
       THEN /\ next_id <= MaxRec
            /\ store' = TableCreate(store, next_id, LogRecord(prompt, args.project_name))
            /\ next_id' = next_id + 1
            /\ successful' = successful + 1
       ELSE UNCHANGED <<storeVars, successful>>
    /\ UNCHANGED <<stage, pc, args, scenes, failed, actual_cost, result_urls,
                   exit_code, summary, obsVars>>
    /\ UNCHANGED <<pollVars, orderVars, submitVars,
                 combineVars, createVars>>

\* main(), lines 211-218: the file is exhausted; display_summary and return.
LogSummary ==
    /\ stage = "log"
    /\ pc = "create"
    /\ summary' = TRUE
    /\ Exit(0)
    /\ UNCHANGED <<storeVars, stage, args, scenes, i, successful, failed,
                   actual_cost, result_urls, obsVars>>
    /\ UNCHANGED <<pollVars, orderVars, submitVars,
                 combineVars, createVars>>

\* --------------------------------------------- tools/generate_images.py
ZImageCost == 4
NanoBananaProCost == 90

ImageModels == {"z-image", "nano-banana-pro"}

\* MODELS[model]['cost'], in thousandths of a dollar.
ImageCost(model) == IF model = "z-image" THEN ZImageCost ELSE NanoBananaProCost

\* What the provider may answer to createTask.
SubmitResponses == {"200_task", "200_no_task", "402", "422", "429", "500", "network"}

\* create_image_generation_task returns the task id of a 200 response that
\* carries one and raises for everything else.
ImageTaskCreated(resp) == resp = "200_task"

\* What poll_task_status of generate_images.py hands back to main: a non-empty
\* list of URLs, or an exception (remote failure, timeout, empty result list).
ImagePollResults ==
    {[kind |-> "urls", urls |-> <<1>>], [kind |-> "urls", urls |-> <<1, 2>>],
     [kind |-> "fail", urls |-> <<>>], [kind |-> "timeout", urls |-> <<>>],
     [kind |-> "no_urls", urls |-> <<>>]}

\* The test record main creates in test mode.
TestRecord(project_name) ==
    [Project_Name |-> TestProject(project_name),
     start_image_prompt |-> TRUE, video_prompt |-> TRUE,
     start_image |-> <<>>, scene_video |-> <<>>]

\* get_scenes_from_airtable of generate_images.py: every row of the project.
ImageGetScenes(tbl, project_name) == TableAll(tbl, project_name)

\* main(), lines 411-465: parse the arguments, load the configuration and
\* load the batch.
ImageLoad(config, model, dry_run, skip_approval, test_mode, store_ok) ==
    /\ stage = "idle"
    /\ cpc = "idle"
    /\ stage' = "image"
    /\ args' = [model |-> model, project_name |-> PROJECT, dry_run |-> dry_run,
                skip_approval |-> skip_approval, test_mode |-> test_mode,
                skip_download |-> FALSE]
    /\ IF ~config
       THEN /\ Exit(1)
            /\ UNCHANGED <<storeVars, scenes, writes>>
       ELSE IF ~store_ok
       THEN \* table.all or table.create raises: nothing catches it
            /\ Exit(1)
            /\ UNCHANGED <<storeVars, scenes, writes>>
       ELSE IF test_mode
       THEN LET existing == TableAll(store, TestProject(PROJECT))
            IN IF existing # <<>>
               THEN /\ scenes' = existing
                    /\ pc' = "approve"
                    /\ UNCHANGED <<storeVars, writes, exit_code>>
               ELSE /\ next_id <= MaxRec
                    /\ store' = TableCreate(store, next_id, TestRecord(PROJECT))
                    /\ next_id' = next_id + 1
                    /\ writes' = writes + 1
                    /\ scenes' = <<[id |-> next_id, fields |-> TestRecord(PROJECT)]>>
                    /\ pc' = "approve"
                    /\ UNCHANGED exit_code
       ELSE /\ scenes' = ImageGetScenes(store, PROJECT)
            /\ IF scenes' = <<>>
               THEN Exit(1)
               ELSE pc' = "approve" /\ UNCHANGED exit_code
            /\ UNCHANGED <<storeVars, writes>>
    /\ UNCHANGED <<i, successful, failed, actual_cost, result_urls, summary,
                   requests, answered, failed_ids, video_done, clips, rejected, slept>>
    /\ UNCHANGED <<pollVars, orderVars, submitVars,
                 combineVars, createVars>>

\* The approval prompt and the dry-run return shared by both generators:
\* main(), lines 467-513 of generate_images.py and 459-490 of generate_videos.py.
Gate(raw) ==
    /\ pc = "approve"
    /\ LET asked == ~args.dry_run /\ ~args.skip_approval
           response == StripLower(raw)
       IN /\ answered' = IF ~asked THEN "not_asked"
                         ELSE IF SaidYes(raw) THEN "yes" ELSE "other"
          /\ IF asked /\ response \notin {"yes", "y"}
             THEN Exit(0) /\ UNCHANGED i
             ELSE IF args.dry_run
             THEN Exit(0) /\ UNCHANGED i
             ELSE pc' = "scene" /\ i' = 1 /\ UNCHANGED exit_code
    /\ UNCHANGED <<storeVars, stage, args, scenes, successful, failed,
                   actual_cost, result_urls, summary, requests, writes,
                   failed_ids, video_done, clips, rejected, slept>>

\* main(), lines 467-513.
ImageGate(raw) ==
    /\ stage = "image"
    /\ Gate(raw)
    /\ UNCHANGED <<pollVars, orderVars, submitVars,
                 combineVars, createVars>>

\* time.sleep(2) between scenes, line 585.
ImageSceneDelay == 2

\* The end of one iteration of the image loop, lines 583-585: the delay,
\* unless the scene was the last, and the next scene.
ImageNextScene ==
    /\ i' = i + 1
    /\ pc' = "scene"
    /\ slept' = IF i < Len(scenes) THEN ImageSceneDelay ELSE slept

\* Mutant: the exception of one scene ends the loop.
ImageExcept_Aborts ==
    /\ failed' = failed + 1
    /\ failed_ids' = failed_ids \cup {scenes[i].id}
    /\ i' = i
    /\ pc' = "done"
    /\ slept' = slept

\* except Exception (lines 579-581): the scene is counted as failed and the
\* loop goes on.
ImageExcept ==
    /\ failed' = failed + 1
    /\ failed_ids' = failed_ids \cup {scenes[i].id}
    /\ ImageNextScene

\* Why createTask did not give a task: the provider rejected the submission
\* (402, 422, 429 or another non-200 status), the request itself raised, or
\* the 200 answer holds no taskId.
SubmitError(resp) ==
    CASE resp \in {"402", "422", "429", "500"} -> "rejected"
      [] resp = "network" -> "transport"
      [] resp = "200_no_task" -> "no_task"
      [] OTHER -> "none"

\* Mutant: a rejected submission is posted a second time.
create_image_generation_task_Retries(resp) ==
    [posts |-> IF SubmitError(resp) = "rejected" THEN 2 ELSE 1,
     created |-> ImageTaskCreated(resp), raised |-> SubmitError(resp)]

\* create_image_generation_task, lines 199-239: one requests.post, whatever
\* its answer; the task id is returned or an exception raised.
create_image_generation_task(resp) ==
    [posts |-> 1, created |-> ImageTaskCreated(resp), raised |-> SubmitError(resp)]

\* Mutant: the job is not waited for; the loop goes on to the next scene as
\* soon as the task exists.
ImageCreateTask_FireAndForget(resp) ==
    /\ stage = "image"
    /\ pc = "scene"
    /\ i <= Len(scenes)
    /\ IF ~scenes[i].fields.start_image_prompt
       THEN /\ failed' = failed + 1
            /\ failed_ids' = failed_ids \cup {scenes[i].id}
            /\ i' = i + 1
            /\ UNCHANGED <<pc, requests, rejected, slept>>
       ELSE LET task == create_image_generation_task(resp)
                post == [id |-> scenes[i].id,
                         had |-> store[scenes[i].id].start_image # <<>>]
            IN /\ requests' = requests \o [k \in 1..task.posts |-> post]
               /\ rejected' = (task.raised = "rejected")
               /\ IF task.created
                  THEN ImageNextScene /\ UNCHANGED <<failed, failed_ids>>
                  ELSE ImageExcept
    /\ UNCHANGED <<storeVars, stage, args, scenes, successful, actual_cost,
                   result_urls, exit_code, summary, writes, answered, video_done, clips>>
    /\ UNCHANGED <<pollVars, orderVars, submitVars,
                 combineVars, createVars>>

\* main(), lines 535-560: the next scene of the batch, up to createTask.  A
\* scene without prompt is counted as failed and skipped (continue).
ImageCreateTask(resp) ==
    /\ stage = "image"
    /\ pc = "scene"
    /\ i <= Len(scenes)
    /\ IF ~scenes[i].fields.start_image_prompt
       THEN /\ failed' = failed + 1
            /\ failed_ids' = failed_ids \cup {scenes[i].id}
            /\ i' = i + 1
            /\ UNCHANGED <<pc, requests, rejected, slept>>
       ELSE LET task == create_image_generation_task(resp)
                post == [id |-> scenes[i].id,
                         had |-> store[scenes[i].id].start_image # <<>>]
            IN /\ requests' = requests \o [k \in 1..task.posts |-> post]
               /\ rejected' = (task.raised = "rejected")
               /\ IF task.created
                  THEN /\ pc' = "poll"
                       /\ slept' = 0
                       /\ UNCHANGED <<i, failed, failed_ids>>
                  ELSE ImageExcept
    /\ UNCHANGED <<storeVars, stage, args, scenes, successful, actual_cost,
                   result_urls, exit_code, summary, writes, answered, video_done, clips>>
    /\ UNCHANGED <<pollVars, orderVars, submitVars,
                 combineVars, createVars>>

\* main(), line 563: poll_task_status returns or raises.
ImagePoll(res) ==
    /\ stage = "image"
    /\ pc = "poll"
    /\ IF res.kind = "urls"
       THEN /\ result_urls' = res.urls
            /\ pc' = "update"
            /\ UNCHANGED <<i, failed, failed_ids, slept>>
       ELSE ImageExcept /\ UNCHANGED result_urls
    /\ UNCHANGED <<storeVars, stage, args, scenes, successful, actual_cost,
                   exit_code, summary, requests, writes, answered, video_done, clips,
                   rejected>>
    /\ UNCHANGED <<pollVars, orderVars, submitVars,
                 combineVars, createVars>>

\* Mutant: the last result URL goes into start_image.
ImageUpdate_WritesLast(update_ok) ==
    /\ stage = "image"
    /\ pc = "update"
    /\ IF result_urls # <<>>
       THEN IF update_ok
            THEN /\ store' = UpdateStartImage(store, scenes[i].id,
                                              result_urls[Len(result_urls)])
                 /\ writes' = writes + 1
                 /\ successful' = successful + 1
                 /\ ImageNextScene
                 /\ UNCHANGED <<failed, failed_ids>>
            ELSE ImageExcept /\ UNCHANGED <<store, writes, successful>>
       ELSE ImageExcept /\ UNCHANGED <<store, writes, successful>>
    /\ result_urls' = <<>>
    /\ UNCHANGED <<next_id, stage, args, scenes, actual_cost, exit_code,
                   summary, requests, answered, video_done, clips, rejected>>
    /\ UNCHANGED <<pollVars, orderVars, submitVars,
                 combineVars, createVars>>

\* main(), lines 565-577: the first result URL goes into start_image.
ImageUpdate(update_ok) ==
    /\ stage = "image"
    /\ pc = "update"
    /\ IF result_urls # <<>>
       THEN IF update_ok
            THEN /\ store' = UpdateStartImage(store, scenes[i].id, result_urls[1])
                 /\ writes' = writes + 1
                 /\ successful' = successful + 1
                 /\ ImageNextScene
                 /\ UNCHANGED <<failed, failed_ids>>
            ELSE ImageExcept /\ UNCHANGED <<store, writes, successful>>
       ELSE ImageExcept /\ UNCHANGED <<store, writes, successful>>
    /\ result_urls' = <<>>
    /\ UNCHANGED <<next_id, stage, args, scenes, actual_cost, exit_code,
                   summary, requests, answered, video_done, clips, rejected>>
    /\ UNCHANGED <<pollVars, orderVars, submitVars,
                 combineVars, createVars>>

\* Mutant: every attempted scene is billed.
ImageActualCost_BillsFailed(n_successful, n_failed, cost) ==
    (n_successful + n_failed) * cost

\* print(f"Actual cost: ${successful * model_config['cost']:.4f}")
ImageActualCost(n_successful, n_failed, cost) == n_successful * cost

\* main(), lines 587-598: the summary after the loop.
ImageSummary ==
    /\ stage = "image"
    /\ pc = "scene"
    /\ i > Len(scenes)
    /\ summary' = TRUE
    /\ actual_cost' = ImageActualCost(successful, failed, ImageCost(args.model))
    /\ Exit(0)
    /\ UNCHANGED <<storeVars, stage, args, scenes, i, successful, failed,
                   result_urls, obsVars>>
    /\ UNCHANGED <<pollVars, orderVars, submitVars,
                 combineVars, createVars>>

\* --------------------------------------------- tools/generate_videos.py
Sora2Cost == 500

\* MODELS[model]['cost'], in thousandths of a dollar.
VideoCost(model) == Sora2Cost

\* has_image / has_video of get_scenes_from_airtable: the attachment field is
\* present and non-empty.
HasImage(fields) == fields.start_image # <<>>
HasVideo(fields) == fields.scene_video # <<>>

\* Mutant: the filter forgets to look at scene_video.
ReadyForVideo_IgnoresVideo(fields) == HasImage(fields)

\* The filter of get_scenes_from_airtable, lines 100-108.
ReadyForVideo(fields) == HasImage(fields) /\ ~HasVideo(fields)

\* get_scenes_from_airtable of generate_videos.py: the rows of the project
\* that have a start_image and no scene_video.
VideoGetScenes(tbl, project_name) ==
    SelectSeq(TableAll(tbl, project_name), LAMBDA r : ReadyForVideo(r.fields))

\* Mutant: the update replaces the row's fields instead of patching them.
UpdateSceneVideo_Replaces(tbl, record_id, video_url) ==
    [tbl EXCEPT ![record_id].scene_video = <<video_url>>,
                ![record_id].start_image = <<>>]

\* table.update(record_id, {'scene_video': [{'url': video_url}]})
UpdateSceneVideo(tbl, record_id, video_url) ==
    [tbl EXCEPT ![record_id].scene_video = <<video_url>>]

\* create_video_generation_task returns the task id of a 200 response that
\* carries one and raises for everything else.
VideoTaskCreated(resp) == resp = "200_task"

\* What poll_task_status of generate_videos.py hands back to main: the list of
\* result URLs of a success response (it may be empty), or an exception.
VideoPollResults ==
    {[kind |-> "urls", urls |-> <<1>>], [kind |-> "urls", urls |-> <<1, 2>>],
     [kind |-> "urls", urls |-> <<>>],
     [kind |-> "fail", urls |-> <<>>], [kind |-> "timeout", urls |-> <<>>]}

\* main(), lines 423-457: parse the arguments and load the batch.
VideoLoad(config, dry_run, skip_approval, test_mode, skip_download, store_ok) ==
    /\ stage = "idle"
    /\ cpc = "idle"
    /\ stage' = "video"
    /\ args' = [model |-> "sora-2", project_name |-> PROJECT, dry_run |-> dry_run,
                skip_approval |-> skip_approval, test_mode |-> test_mode,
                skip_download |-> skip_download]
    /\ IF ~config \/ test_mode
       THEN Exit(1) /\ UNCHANGED scenes
       ELSE IF ~store_ok
       THEN \* table.all raises: nothing catches it
            Exit(1) /\ UNCHANGED scenes
       ELSE /\ scenes' = VideoGetScenes(store, PROJECT)
            /\ IF scenes' = <<>>
               THEN Exit(1)
               ELSE pc' = "approve" /\ UNCHANGED exit_code
    /\ UNCHANGED <<storeVars, i, successful, failed, actual_cost, result_urls,
                   summary, obsVars>>
    /\ UNCHANGED <<pollVars, orderVars, submitVars,
                 combineVars, createVars>>

\* main(), lines 459-490.
VideoGate(raw) ==
    /\ stage = "video"
    /\ Gate(raw)
    /\ UNCHANGED <<pollVars, orderVars, submitVars,
                 combineVars, createVars>>

\* time.sleep(5) before the next video, line 565.
VideoSceneDelay == 5

\* continue: the next scene of the video loop.
VideoNextScene ==
    /\ i' = i + 1
    /\ pc' = "scene"

\* except Exception (lines 519-522 and 567-570): the scene is counted as failed
\* and the loop goes on.
VideoExcept ==
    /\ failed' = failed + 1
    /\ failed_ids' = failed_ids \cup {scenes[i].id}
    /\ VideoNextScene

\* main(), lines 559-565: the scene is counted as successful and billed, and
\* the loop sleeps unless the scene was the last.
VideoSuccess ==
    /\ successful' = successful + 1
    /\ actual_cost' = actual_cost + VideoCost(args.model)
    /\ video_done' = video_done \cup {scenes[i].id}
    /\ slept' = IF i < Len(scenes) THEN VideoSceneDelay ELSE slept
    /\ VideoNextScene

\* Mutant: a submission that gave no task is posted once more.
create_video_generation_task_PostsAgain(resp) ==
    [posts |-> IF VideoTaskCreated(resp) THEN 1 ELSE 2,
     created |-> VideoTaskCreated(resp), raised |-> SubmitError(resp)]

\* create_video_generation_task, lines 195-234: one requests.post, whatever
\* its answer; the task id is returned or an exception raised.
create_video_generation_task(resp) ==
    [posts |-> 1, created |-> VideoTaskCreated(resp), raised |-> SubmitError(resp)]

\* main(), lines 503-535: the next scene of the batch, up to createTask.
VideoCreateTask(resp) ==
    /\ stage = "video"
    /\ pc = "scene"
    /\ i <= Len(scenes)
    /\ IF ~HasImage(scenes[i].fields)
       THEN \* get_image_url_from_record raises
            VideoExcept /\ UNCHANGED <<requests, rejected, slept>>
       ELSE IF ~scenes[i].fields.video_prompt
       THEN \* "No video_prompt found, skipping...": continue, nothing counted
            /\ VideoNextScene
            /\ UNCHANGED <<requests, failed, failed_ids, rejected, slept>>
       ELSE LET task == create_video_generation_task(resp)
                post == [id |-> scenes[i].id,
                         had |-> HasVideo(store[scenes[i].id])]
            IN /\ requests' = requests \o [k \in 1..task.posts |-> post]
               /\ rejected' = (task.raised = "rejected")
               /\ slept' = 0
               /\ IF task.created
                  THEN /\ pc' = "poll"
                       /\ UNCHANGED <<i, failed, failed_ids>>
                  ELSE VideoExcept
    /\ UNCHANGED <<storeVars, stage, args, scenes, successful, actual_cost,
                   result_urls, exit_code, summary, writes, answered, video_done, clips>>
    /\ UNCHANGED <<pollVars, orderVars, submitVars,
                 combineVars, createVars>>

\* main(), lines 537-543: poll_task_status returns or raises; an empty result
\* list raises "No result URLs returned".
VideoPoll(res) ==
    /\ stage = "video"
    /\ pc = "poll"
    /\ IF res.kind = "urls" /\ res.urls # <<>>
       THEN /\ result_urls' = res.urls
            /\ pc' = "update"
            /\ UNCHANGED <<i, failed, failed_ids>>
       ELSE VideoExcept /\ UNCHANGED result_urls
    /\ UNCHANGED <<storeVars, stage, args, scenes, successful, actual_cost,
                   exit_code, summary, requests, writes, answered, video_done, clips,
                   rejected, slept>>
    /\ UNCHANGED <<pollVars, orderVars, submitVars,
                 combineVars, createVars>>

\* main(), lines 543-557: the first result URL goes into scene_video; the
\* download follows unless --skip-download.
VideoUpdate(update_ok) ==
    /\ stage = "video"
    /\ pc = "update"
    /\ IF update_ok
       THEN /\ store' = UpdateSceneVideo(store, scenes[i].id, result_urls[1])
            /\ writes' = writes + 1
            /\ IF args.skip_download
               THEN /\ VideoSuccess
                    /\ result_urls' = <<>>
               ELSE /\ pc' = "download"
                    /\ UNCHANGED <<i, successful, actual_cost, video_done,
                                   result_urls, slept>>
            /\ UNCHANGED <<failed, failed_ids>>
       ELSE /\ VideoExcept
            /\ result_urls' = <<>>
            /\ UNCHANGED <<store, writes, successful, actual_cost, video_done,
                           slept>>
    /\ UNCHANGED <<next_id, stage, args, scenes, exit_code, summary, requests,
                   answered, rejected, clips>>
    /\ UNCHANGED <<pollVars, orderVars, submitVars,
                 combineVars, createVars>>

\* main(), lines 553-570: download_video writes the clip
\* scene_{i}_{scene name}.mp4 or raises.
VideoDownload(download_ok) ==
    /\ stage = "video"
    /\ pc = "download"
    /\ IF download_ok
       THEN /\ VideoSuccess
            /\ clips' = clips \cup {[n |-> i, id |-> scenes[i].id]}
            /\ UNCHANGED <<failed, failed_ids>>
       ELSE /\ VideoExcept
            /\ UNCHANGED <<successful, actual_cost, video_done, clips, slept>>
    /\ result_urls' = <<>>
    /\ UNCHANGED <<storeVars, stage, args, scenes, exit_code, summary, requests,
                   writes, answered, rejected>>
    /\ UNCHANGED <<pollVars, orderVars, submitVars,
                 combineVars, createVars>>

\* main(), lines 572-584: the summary after the loop.
VideoSummary ==
    /\ stage = "video"
    /\ pc = "scene"
    /\ i > Len(scenes)
    /\ summary' = TRUE
    /\ Exit(0)
    /\ UNCHANGED <<storeVars, stage, args, scenes, i, successful, failed,
                   actual_cost, result_urls, obsVars>>
    /\ UNCHANGED <<pollVars, orderVars, submitVars,
                 combineVars, createVars>>

\* ------------------------------------------------------ poll_task_status
ImageMaxWait == 600
VideoMaxWait == 900
TransientSleep == 5

Jobs == {"image", "video"}

\* max_wait of the job's poll_task_status.
MaxWait(j) == IF j = "image" THEN ImageMaxWait ELSE VideoMaxWait

\* What one status request may bring: a transport exception, a non-200
\* response, or a 200 response with a state (or none) and, with the state
\* 'success', a resultJson that holds URLs, holds none, or does not parse.
\* "missing" is a body whose data holds no state (or that holds no data),
\* "null_data" a body whose data is null, as in {"code": 500, "data": null}.
PollResponses ==
    {"network", "non200", "waiting", "queuing", "generating", "unknown",
     "missing", "null_data", "success_urls", "success_empty",
     "success_badjson", "fail"}

TransportErrors == {"network", "non200"}
PendingStates == {"waiting", "queuing", "generating"}

Latencies == 0..MaxLatency
StartTimes == {0, 7}

\* Mutant: the loop gives up one request timeout before the budget.
BudgetLeft_MinusRequestTimeout(t, t0, max_wait) == t - t0 < max_wait - 30

\* while time.time() - start_time < max_wait
BudgetLeft(t, t0, max_wait) == t - t0 < max_wait

\* raise Exception / raise TimeoutError: the exception's type and the fixed
\* head of its message.
Raise(exc, msg) == [exc |-> exc, msg |-> msg, urls |-> <<>>]

\* The raise after the loop: line 312 of both tools.
TimeoutRaised(j) ==
    IF j = "image"
    THEN Raise("TimeoutError", "Task did not complete within")
    ELSE Raise("Exception", "Task did not complete within")

\* raise Exception(f"Generation failed ..."): lines 291-294 and 290-293.
FailRaised(j) == Raise("Exception", "Generation failed")

\* Mutant: the long interval is kept for the start of the wait.
ImagePollSleep_LongFirst(el) == IF el < 30 THEN 10 ELSE IF el < 120 THEN 5 ELSE 3

\* The smart polling interval of generate_images.py, lines 298-303.
ImagePollSleep(el) == IF el < 30 THEN 3 ELSE IF el < 120 THEN 5 ELSE 10

\* The smart polling interval of generate_videos.py, lines 296-301.
VideoPollSleep(el) == IF el < 60 THEN 10 ELSE IF el < 180 THEN 15 ELSE 30

\* One turn of the loop goes on: sleep, then back to the while test.
Continue(seconds) == [next |-> "while", sleep |-> seconds, outcome |-> NoOutcome]

\* poll_task_status ends: it returns the URLs or raises.
Finish(result) == [next |-> "done", sleep |-> 0, outcome |-> result]

\* Mutant: a transport error of one poll ends poll_task_status.
OnTransportError_Raises(j) == Finish(Raise("Exception", "Network error"))

\* Mutant: a transport error is answered by the next request at once.
OnTransportError_NoSleep(j) == Continue(0)

\* response.status_code != 200, and except RequestException: sleep 5 and go
\* on (lines 267-270 and 308-310; 267-270 and 303-306).
OnTransportError(j) == Continue(TransientSleep)

\* What poll_task_status of generate_images.py does with a 200 response,
\* lines 272-306; el is the elapsed time it computed after the request.
ImageOnResponse(resp, el) ==
    CASE resp = "success_urls" -> Finish([NoOutcome EXCEPT !.urls = <<1>>])
      [] resp = "success_empty" -> Finish(Raise("Exception", "No resultUrls in response"))
      [] resp = "success_badjson" -> Finish(Raise("JSONDecodeError", ""))
      [] resp = "fail" -> Finish(FailRaised("image"))
      [] resp = "null_data" ->
             \* data = result.get('data', {}) is None: data.get raises, and
             \* except RequestException does not catch it
             Finish(Raise("AttributeError", "'NoneType' object has no attribute 'get'"))
      [] resp \in PendingStates -> Continue(ImagePollSleep(el))
      [] OTHER -> Continue(5)

\* What poll_task_status of generate_videos.py does with a 200 response,
\* lines 272-310; el is the elapsed time it computed before the request.
VideoOnResponse(resp, el) ==
    CASE resp = "success_urls" -> Finish([NoOutcome EXCEPT !.urls = <<1>>])
      [] resp = "success_empty" -> Finish(NoOutcome)
      [] resp = "success_badjson" -> Continue(5)
      [] resp = "fail" -> Finish(FailRaised("video"))
      [] resp = "null_data" ->
             Finish(Raise("AttributeError", "'NoneType' object has no attribute 'get'"))
      [] OTHER -> Continue(VideoPollSleep(el))

\* start_time = time.time(); poll_count = 0
PollInit ==
    /\ StageInit
    /\ job \in Jobs
    /\ now \in StartTimes
    /\ start_time = now
    /\ ppc = "while"
    /\ outcome = NoOutcome
    /\ last_resp = "none"
    /\ only_pending = TRUE
    /\ OrderIdle
    /\ SubmitIdle
    /\ CombineIdle
    /\ CreateIdle

\* The while test: lines 257 and 312 (256 and 312).
PollWhile ==
    /\ ppc = "while"
    /\ IF BudgetLeft(now, start_time, MaxWait(job))
       THEN ppc' = "get" /\ UNCHANGED outcome
       ELSE ppc' = "done" /\ outcome' = TimeoutRaised(job)
    /\ UNCHANGED <<job, now, start_time, last_resp, only_pending>>
    /\ UNCHANGED <<storeVars, runVars, obsVars, orderVars, submitVars,
                 combineVars, createVars>>

\* The kind of an answer: a transport error, a pending state, a terminal
\* state, or anything else.
Kind(resp) ==
    CASE resp \in TransportErrors -> "transport"
      [] resp \in PendingStates -> "pending"
      [] resp = "fail" -> "fail"
      [] resp \in {"success_urls", "success_empty", "success_badjson"} -> "success"
      [] OTHER -> "other"

\* One turn of the loop body, lines 258-310 (257-310): the request, which
\* takes latency seconds, what the tool does with the answer, and the sleep.
\* elapsed is int(time.time() - start_time), which the video tool computes
\* before the request and the image tool after it.
PollGet(resp, latency) ==
    /\ ppc = "get"
    /\ LET elapsed == IF job = "image"
                      THEN (now + latency) - start_time
                      ELSE now - start_time
           todo == IF resp \in TransportErrors THEN OnTransportError(job)
                   ELSE IF job = "image" THEN ImageOnResponse(resp, elapsed)
                   ELSE VideoOnResponse(resp, elapsed)
       IN /\ now' = now + latency + todo.sleep
          /\ ppc' = todo.next
          /\ outcome' = todo.outcome
    /\ last_resp' = Kind(resp)
    /\ only_pending' = (only_pending /\ Kind(resp) \in {"pending", "transport"})
    /\ UNCHANGED <<job, start_time>>
    /\ UNCHANGED <<storeVars, runVars, obsVars, orderVars, submitVars,
                 combineVars, createVars>>

PollNext ==
    \/ PollWhile
    \/ \E resp \in PollResponses, latency \in Latencies : PollGet(resp, latency)

PollSpec == PollInit /\ [][PollNext]_vars

\* The process runs: it is never stopped for ever between two steps.
PollFairSpec == PollSpec /\ WF_vars(PollNext)

\* ------------------------------------------------- the order of a batch
\* The scene numbers of a prompts file, and the ids of the rows of one query.
SceneNumbers == 1..MaxRows
RowIds == 1..MaxRows

\* The fields of a row the generators read: the number its 'scene' title
\* starts with ("Scene <n> - ...") and the two attachments.  No row holds a
\* video without an image.
RowFields ==
    {f \in [scene : SceneNumbers, start_image : {<<>>, <<1>>},
            scene_video : {<<>>, <<1>>}] :
        f.scene_video # <<>> => f.start_image # <<>>}

\* What table.all(formula=...) may return: rows of distinct ids, in any order.
RowLists ==
    UNION {{rs \in [1..n -> [id : RowIds, fields : RowFields]] :
               \A a, b \in 1..n : rs[a].id = rs[b].id => a = b} : n \in 0..MaxRows}

\* get_scenes_from_airtable of generate_images.py, lines 339-351: the records
\* as table.all returned them.
ImageBatch(records) == records

\* get_scenes_from_airtable of generate_videos.py, lines 93-111: the records
\* table.all returned that are ready for video, appended in turn.
VideoBatch(all_records) ==
    SelectSeq(all_records, LAMBDA record : ReadyForVideo(record.fields))

OrderInit ==
    /\ StageInit
    /\ PollIdle
    /\ returned \in RowLists
    /\ otool = "none"
    /\ batch = <<>>
    /\ visited = <<>>
    /\ SubmitIdle
    /\ CombineIdle
    /\ CreateIdle

\* scenes = get_scenes_from_airtable(...): main(), line 456 of
\* generate_images.py and line 447 of generate_videos.py.
OrderLoad(tool) ==
    /\ otool = "none"
    /\ otool' = tool
    /\ batch' = IF tool = "image" THEN ImageBatch(returned) ELSE VideoBatch(returned)
    /\ UNCHANGED <<returned, visited>>
    /\ UNCHANGED <<storeVars, runVars, obsVars, pollVars, submitVars,
                 combineVars, createVars>>

\* for i, record in enumerate(scenes, 1): the loop takes the next record of
\* the list (line 535 of generate_images.py, line 503 of generate_videos.py).
OrderVisit ==
    /\ otool # "none"
    /\ Len(visited) < Len(batch)
    /\ visited' = Append(visited, batch[Len(visited) + 1])
    /\ UNCHANGED <<returned, otool, batch>>
    /\ UNCHANGED <<storeVars, runVars, obsVars, pollVars, submitVars,
                 combineVars, createVars>>

OrderNext ==
    \/ \E tool \in Jobs : OrderLoad(tool)
    \/ OrderVisit

OrderSpec == OrderInit /\ [][OrderNext]_vars

\* ------------------------------------------------------------- prompts
\* A text is a list of runs; the run [c, n] stands for n >= 1 copies of the
\* character c, and neighbouring runs differ in c.  "a" stands for any
\* character that is neither a full stop nor white space.
Run(c, n) == [c |-> c, n |-> n]

Dot == <<Run(".", 1)>>
Ellipsis == <<Run(".", 3)>>

\* len(s)
RECURSIVE StrLen(_)
StrLen(s) == IF s = <<>> THEN 0 ELSE s[1].n + StrLen(Tail(s))

\* The text of a list of runs: empty runs dropped, neighbours of one
\* character joined.
RECURSIVE Norm(_)
Norm(s) ==
    IF s = <<>> THEN <<>>
    ELSE IF s[1].n = 0 THEN Norm(Tail(s))
    ELSE LET rest == Norm(Tail(s))
         IN IF rest # <<>> /\ rest[1].c = s[1].c
            THEN <<Run(s[1].c, s[1].n + rest[1].n)>> \o Tail(rest)
            ELSE <<s[1]>> \o rest

\* s + t
Concat(s, t) == Norm(s \o t)

\* The first k characters of s.
RECURSIVE Take(_, _)
Take(s, k) ==
    IF k <= 0 \/ s = <<>> THEN <<>>
    ELSE IF s[1].n <= k THEN <<s[1]>> \o Take(Tail(s), k - s[1].n)
    ELSE <<Run(s[1].c, k)>>

\* s[:stop]: a negative stop counts from the end of s.
SliceTo(s, stop) ==
    IF stop >= 0 THEN Take(s, stop)
    ELSE Take(s, StrLen(s) + stop)

\* s.split('.'), continued after cur, the piece read so far: every full stop
\* ends a piece, so a run of n full stops ends cur and n - 1 empty pieces.
RECURSIVE SplitDot(_, _)
SplitDot(s, cur) ==
    IF s = <<>> THEN <<cur>>
    ELSE IF s[1].c = "."
         THEN <<cur>> \o [k \in 1..(s[1].n - 1) |-> <<>>] \o SplitDot(Tail(s), <<>>)
         ELSE SplitDot(Tail(s), cur \o <<s[1]>>)

\* s.strip()
Strip(s) ==
    LET lead == IF s # <<>> /\ s[1].c = " " THEN Tail(s) ELSE s
    IN IF lead # <<>> /\ lead[Len(lead)].c = " "
       THEN SubSeq(lead, 1, Len(lead) - 1)
       ELSE lead

\* Mutant: the room left for the ending is forgotten.
SentenceFits_NoMargin(truncated, sentence, max_length) ==
    StrLen(truncated) + StrLen(sentence) + 1 <= max_length

\* len(truncated) + len(sentence) + 1 <= max_length - 50
SentenceFits(truncated, sentence, max_length) ==
    StrLen(truncated) + StrLen(sentence) + 1 <= max_length - 50

\* The for loop of truncate_prompt, lines 133-137, from sentence k on.
RECURSIVE Accumulate(_, _, _, _)
Accumulate(sentences, k, truncated, max_length) ==
    IF k > Len(sentences) THEN truncated
    ELSE IF SentenceFits(truncated, sentences[k], max_length)
         THEN Accumulate(sentences, k + 1,
                         Concat(Concat(truncated, sentences[k]), Dot), max_length)
         ELSE truncated

\* Mutant: the ellipsis is appended to the first max_length characters.
HardTruncate_FullLength(prompt, max_length) ==
    Concat(SliceTo(prompt, max_length), Ellipsis)

\* truncated = prompt[:max_length-3] + "..."
HardTruncate(prompt, max_length) ==
    Concat(SliceTo(prompt, max_length - 3), Ellipsis)

\* truncate_prompt(prompt, max_length), lines 124-144 of generate_images.py
\* and 131-151 of generate_videos.py.
truncate_prompt(prompt, max_length) ==
    IF StrLen(prompt) <= max_length
    THEN prompt
    ELSE LET sentences == SplitDot(prompt, <<>>)
             truncated == Accumulate(sentences, 1, <<>>, max_length)
         IN IF truncated = <<>> \/ StrLen(truncated) < 50
            THEN Strip(HardTruncate(prompt, max_length))
            ELSE Strip(truncated)

\* ------------------------------------------------------ the createTask payload
\* MODELS of generate_images.py, lines 29-47.
ImageModelConfig(name) ==
    IF name = "z-image"
    THEN [cost |-> ZImageCost, supports_image_input |-> FALSE,
          supports_resolution |-> FALSE, max_prompt_length |-> 1000]
    ELSE [cost |-> NanoBananaProCost, supports_image_input |-> TRUE,
          supports_resolution |-> TRUE, max_prompt_length |-> 10000]

\* MODELS of generate_videos.py, lines 36-46.
VideoModelConfig(name) == [cost |-> Sora2Cost, max_prompt_length |-> 10000]

SubmitModels == ImageModels \cup {"sora-2"}

\* model_config.get('max_prompt_length', 10000)
MaxPromptLength(name) ==
    IF name \in ImageModels
    THEN ImageModelConfig(name).max_prompt_length
    ELSE VideoModelConfig(name).max_prompt_length

\* The prompt as create_image_generation_task and
\* create_video_generation_task send it: truncated when longer than
\* max_prompt_length (lines 158-163 and 167-172).
SentPrompt(text, max_prompt_length) ==
    IF StrLen(text) > max_prompt_length
    THEN truncate_prompt(text, max_prompt_length)
    ELSE text

\* Mutant: the model-specific parameters are added for every model.
ImagePayload_AnyModel(text, name, model_config, reference, aspect_ratio, resolution) ==
    LET sent == SentPrompt(text, model_config.max_prompt_length)
        input == ("prompt" :> sent) @@ ("aspect_ratio" :> aspect_ratio)
                 @@ ("resolution" :> resolution) @@ ("output_format" :> "png")
    IN [model |-> name,
        input |-> IF reference # "None"
                  THEN input @@ ("image_input" :> <<reference>>)
                  ELSE input]

\* The payload of create_image_generation_task, lines 158-194.
ImagePayload(text, name, model_config, reference, aspect_ratio, resolution) ==
    LET sent == SentPrompt(text, model_config.max_prompt_length)
        input == ("prompt" :> sent) @@ ("aspect_ratio" :> aspect_ratio)
        with_resolution ==
            IF model_config.supports_resolution
            THEN input @@ ("resolution" :> resolution)
            ELSE input
        with_format == with_resolution @@ ("output_format" :> "png")
    IN [model |-> name,
        input |-> IF name = "nano-banana-pro"
                  THEN IF reference # "None" /\ model_config.supports_image_input
                       THEN with_format @@ ("image_input" :> <<reference>>)
                       ELSE with_format
                  ELSE input]

\* The payload of create_video_generation_task, lines 167-190.
VideoPayload(text, name, model_config, image_url, aspect_ratio, n_frames) ==
    [model |-> name,
     input |-> ("prompt" :> SentPrompt(text, model_config.max_prompt_length))
               @@ ("image_urls" :> <<image_url>>)
               @@ ("aspect_ratio" :> aspect_ratio)
               @@ ("n_frames" :> n_frames)
               @@ ("remove_watermark" :> TRUE)
               @@ ("upload_method" :> "s3")]

\* The pieces prompts are put together from: runs of other characters of the
\* lengths at which truncate_prompt changes its mind, a full stop, a blank.
PromptBlocks(limit) ==
    {Run("a", n) : n \in {1, 48, 49, limit - 51, limit}}
        \cup {Run(".", 1), Run(" ", 1)}

Prompts(limit) ==
    {Norm(blocks) :
        blocks \in UNION {[1..n -> PromptBlocks(limit)] : n \in 0..MaxBlocks}}

SubmitInit ==
    /\ StageInit
    /\ PollIdle
    /\ OrderIdle
    /\ CombineIdle
    /\ CreateIdle
    /\ model_name \in SubmitModels
    /\ ptext \in Prompts(MaxPromptLength(model_name))
    /\ reference_image_url \in
           (IF model_name \in ImageModels THEN {"None", "ref"} ELSE {"None"})
    /\ spc = "input"
    /\ once = <<>>
    /\ again = <<>>
    /\ payload = NoPayload

\* truncate_prompt applied to the prompt under the model's limit.
Truncate ==
    /\ spc = "input"
    /\ once' = truncate_prompt(ptext, MaxPromptLength(model_name))
    /\ spc' = "once"
    /\ UNCHANGED <<ptext, model_name, reference_image_url, again, payload>>
    /\ UNCHANGED <<storeVars, runVars, obsVars, pollVars, orderVars,
                 combineVars, createVars>>

\* truncate_prompt applied to its own result.
TruncateAgain ==
    /\ spc = "once"
    /\ again' = truncate_prompt(once, MaxPromptLength(model_name))
    /\ spc' = "twice"
    /\ UNCHANGED <<ptext, model_name, reference_image_url, once, payload>>
    /\ UNCHANGED <<storeVars, runVars, obsVars, pollVars, orderVars,
                 combineVars, createVars>>

\* create_image_generation_task builds its payload, lines 158-194; main
\* hands it a non-empty prompt (lines 545-560).
ImageBuildPayload ==
    /\ spc = "input"
    /\ model_name \in ImageModels
    /\ ptext # <<>>
    /\ payload' = ImagePayload(ptext, model_name, ImageModelConfig(model_name),
                               reference_image_url, "1:1", "1K")
    /\ spc' = "built"
    /\ UNCHANGED <<ptext, model_name, reference_image_url, once, again>>
    /\ UNCHANGED <<storeVars, runVars, obsVars, pollVars, orderVars,
                 combineVars, createVars>>

\* create_video_generation_task builds its payload, lines 167-190; main
\* hands it a non-empty prompt (lines 512-535).
VideoBuildPayload ==
    /\ spc = "input"
    /\ model_name \notin ImageModels
    /\ ptext # <<>>
    /\ payload' = VideoPayload(ptext, model_name, VideoModelConfig(model_name),
                               "image", "landscape", "10")
    /\ spc' = "built"
    /\ UNCHANGED <<ptext, model_name, reference_image_url, once, again>>
    /\ UNCHANGED <<storeVars, runVars, obsVars, pollVars, orderVars,
                 combineVars, createVars>>

SubmitNext ==
    \/ Truncate
    \/ TruncateAgain
    \/ ImageBuildPayload
    \/ VideoBuildPayload

SubmitSpec == SubmitInit /\ [][SubmitNext]_vars

\* ------------------------------------------------- tools/combine_all.py
\* The place of a character in the order of code points, among the characters
\* file names are written with.
Ord(c) ==
    LET alphabet == <<" ", ".", "0", "1", "2", "3", "4", "5", "6", "7", "8",
                      "9", "O", "S", "_", "a", "c", "d", "e", "f", "i", "l",
                      "m", "n", "o", "p", "r", "s", "t", "u", "v", "x", "y",
                      "z">>
    IN CHOOSE k \in 1..Len(alphabet) : alphabet[k] = c

\* str.lower(), and re.IGNORECASE, on a text given as the list of its
\* characters or of its words.
Lower(s) ==
    [k \in 1..Len(s) |->
        CASE s[k] = "O" -> "o"
          [] s[k] = "S" -> "s"
          [] s[k] = "Warm" -> "warm"
          [] s[k] = "Beach" -> "beach"
          [] s[k] = "Close-up" -> "close-up"
          [] OTHER -> s[k]]

\* a < b for two str: the first differing character decides, a proper prefix
\* is the smaller.
RECURSIVE StrLess(_, _)
StrLess(a, b) ==
    IF b = <<>> THEN FALSE
    ELSE IF a = <<>> THEN TRUE
    ELSE IF a[1] # b[1] THEN Ord(a[1]) < Ord(b[1])
    ELSE StrLess(Tail(a), Tail(b))

\* The names of the *.mp4 files a directory may hold: scene_1_z.mp4,
\* scene_2_x.mp4, scene_10_y.mp4, 'Scene 2.mp4', intro.mp4 and Outro.mp4.
FileNames ==
    LET scene == <<"s", "c", "e", "n", "e">>
        mp4 == <<".", "m", "p", "4">>
    IN {scene \o <<"_", "1", "_", "z">> \o mp4,
        scene \o <<"_", "2", "_", "x">> \o mp4,
        scene \o <<"_", "1", "0", "_", "y">> \o mp4,
        <<"S", "c", "e", "n", "e", " ", "2">> \o mp4,
        <<"i", "n", "t", "r", "o">> \o mp4,
        <<"O", "u", "t", "r", "o">> \o mp4}

\* What input_path.glob('*.mp4') may yield: distinct names, in any order.  A
\* directory that does not exist has no names.
Listings ==
    UNION {{fs \in [1..n -> FileNames] :
               \A a, b \in 1..n : fs[a] = fs[b] => a = b} : n \in 0..MaxFiles}

\* [_\s]* and \d+ from position q on: the position after the characters of
\* the class.
RECURSIVE SkipWhile(_, _, _)
SkipWhile(name, q, class) ==
    IF q <= Len(name) /\ name[q] \in class
    THEN SkipWhile(name, q + 1, class)
    ELSE q

\* re.search(r'scene[_\s]*(\d+)', name, re.IGNORECASE) from position p on:
\* group 1 of the leftmost match, or nothing.
RECURSIVE SearchFrom(_, _)
SearchFrom(name, p) ==
    LET q == SkipWhile(name, p + 5, {"_", " "})
        r == SkipWhile(name, q, {"0", "1", "2", "3", "4", "5", "6", "7", "8", "9"})
    IN IF p > Len(name) THEN <<>>
       ELSE IF /\ p + 4 <= Len(name)
               /\ Lower(SubSeq(name, p, p + 4)) = <<"s", "c", "e", "n", "e">>
               /\ r > q
       THEN SubSeq(name, q, r - 1)
       ELSE SearchFrom(name, p + 1)

\* int(digits)
RECURSIVE int(_)
int(digits) ==
    IF digits = <<>> THEN 0
    ELSE int(SubSeq(digits, 1, Len(digits) - 1)) * 10
         + (Ord(digits[Len(digits)]) - Ord("0"))

\* Mutant: the matched digits are kept as text.
get_scene_number_Text(name) ==
    LET group == SearchFrom(name, 1)
    IN IF group # <<>>
       THEN [type |-> "str", int |-> 0, str |-> group]
       ELSE [type |-> "str", int |-> 0, str |-> name]

\* get_scene_number, lines 74-80: the number after 'scene' as an int, or the
\* file name as a str.
get_scene_number(name) ==
    LET group == SearchFrom(name, 1)
    IN IF group # <<>>
       THEN [type |-> "int", int |-> int(group), str |-> <<>>]
       ELSE [type |-> "str", int |-> 0, str |-> name]

\* One file put into a sorted list, behind the files whose key is not larger
\* (list.sort is stable); the keys are of one type.
RECURSIVE InsertByKey(_, _)
InsertByKey(sorted, file) ==
    LET x == get_scene_number(file)
        y == get_scene_number(sorted[1])
    IN IF sorted = <<>> THEN <<file>>
       ELSE IF (IF x.type = "int" THEN x.int < y.int ELSE StrLess(x.str, y.str))
       THEN <<file>> \o sorted
       ELSE <<sorted[1]>> \o InsertByKey(Tail(sorted), file)

\* video_files.sort(key=get_scene_number), line 82, for keys of one type.
RECURSIVE SortByKey(_)
SortByKey(files) ==
    IF files = <<>> THEN <<>>
    ELSE InsertByKey(SortByKey(SubSeq(files, 1, Len(files) - 1)),
                     files[Len(files)])

\* The files left by the project filter, lines 63-65.
ProjectFilter(globbed, project_name) ==
    LET sub == Lower(project_name)
    IN IF project_name # <<>>
       THEN SelectSeq(globbed,
                LAMBDA f : \E p \in 1..Len(f) :
                    /\ p + Len(sub) - 1 <= Len(f)
                    /\ SubSeq(Lower(f), p, p + Len(sub) - 1) = sub)
       ELSE globbed

\* find_video_files, lines 51-89: the list it returns, or the TypeError of
\* the sort.  list.sort compares keys with <, and '<' between an int and a
\* str raises TypeError: a list holding keys of both types cannot be sorted.
find_video_files(globbed, project_name) ==
    LET filtered == ProjectFilter(globbed, project_name)
        mixed == \E a, b \in 1..Len(filtered) :
                     get_scene_number(filtered[a]).type
                     # get_scene_number(filtered[b]).type
    IN IF filtered = <<>> THEN [raised |-> FALSE, files |-> <<>>]
       ELSE IF mixed THEN [raised |-> TRUE, files |-> <<>>]
       ELSE [raised |-> FALSE, files |-> SortByKey(filtered)]

\* How one FFmpeg run may end: its return code, and what it left at the path
\* it was told to write.
FfmpegRuns ==
    {[ok |-> TRUE, left |-> "complete"], [ok |-> TRUE, left |-> "absent"],
     [ok |-> FALSE, left |-> "absent"], [ok |-> FALSE, left |-> "partial"]}

\* combine_videos (lines 141-169) and add_background_music (lines 200-227)
\* return True for return code 0 with the output file in place; a timeout and
\* any other exception of the run give False.
FfmpegSucceeded(run) == run.ok /\ run.left # "absent"

\* Mutant: the intermediate video is not deleted.
cleanup_temp_files_KeepsVideo(files, temp_files) ==
    [concat |-> files.concat /\ "concat" \notin temp_files,
     temp |-> files.temp]

\* cleanup_temp_files, lines 230-246: every listed file that exists is
\* deleted.
cleanup_temp_files(files, temp_files) ==
    [concat |-> files.concat /\ "concat" \notin temp_files,
     temp |-> files.temp /\ "temp" \notin temp_files]

\* temp_files, lines 342 and 355.
TempFiles(music) == IF music THEN {"concat", "temp"} ELSE {"concat"}

CombineInit ==
    /\ StageInit
    /\ PollIdle
    /\ OrderIdle
    /\ SubmitIdle
    /\ CreateIdle
    /\ listing \in Listings
    /\ cargs \in [project_name : {<<>>, <<"S", "c", "e", "n", "e">>},
                  music : BOOLEAN, dry_run : BOOLEAN]
    /\ cpc = "start"
    /\ video_files = <<>>
    /\ concat_file = FALSE
    /\ temp_output = FALSE
    /\ output_file = "absent"
    /\ cexit = -1
    /\ lacking \in SUBSET SceneNumbers
    /\ handed = <<>>

\* sys.exit(code), the return of main (code 0), or an exception nobody
\* catches.
CombineExit(code) ==
    /\ cpc' = "done"
    /\ cexit' = code

\* main(), lines 312-342: FFmpeg must answer, and the files to combine are
\* looked up; nothing to do for none or one, and nothing done in a dry run.
\* The TypeError of the sort is caught nowhere.
CombineFind(ffmpeg_ok) ==
    /\ cpc = "start"
    /\ LET found == find_video_files(listing, cargs.project_name)
       IN IF ~ffmpeg_ok
          THEN CombineExit(1) /\ UNCHANGED video_files
          ELSE /\ video_files' = found.files
               /\ IF found.raised \/ found.files = <<>> THEN CombineExit(1)
                  ELSE IF Len(found.files) = 1 \/ cargs.dry_run THEN CombineExit(0)
                  ELSE cpc' = "concat" /\ UNCHANGED cexit
    /\ UNCHANGED <<listing, cargs, concat_file, temp_output, output_file,
                   lacking, handed>>
    /\ UNCHANGED <<storeVars, runVars, obsVars, pollVars, orderVars,
                   submitVars, createVars>>

\* main(), lines 344-355: create_concat_file and the output directory.  An
\* exception of open (no file yet) or of mkdir (the list is written) goes to
\* the handler of lines 416-421.
CombineConcat(fault) ==
    /\ cpc = "concat"
    /\ IF fault = "none"
       THEN /\ concat_file' = TRUE
            /\ cpc' = "mux"
            /\ UNCHANGED <<temp_output, cexit>>
       ELSE LET files == [concat |-> fault = "mkdir", temp |-> temp_output]
                left == cleanup_temp_files(files, {"concat"})
            IN /\ concat_file' = left.concat
               /\ temp_output' = left.temp
               /\ CombineExit(1)
    /\ UNCHANGED <<listing, cargs, video_files, output_file, lacking, handed>>
    /\ UNCHANGED <<storeVars, runVars, obsVars, pollVars, orderVars,
                   submitVars, createVars>>

\* main(), lines 352-367 and 380-410: combine_videos writes the intermediate
\* video when music is to be added and the output otherwise; temp files are
\* cleaned up on failure and, without music, after success.
CombineMux(run) ==
    /\ cpc = "mux"
    /\ handed' = video_files
    /\ LET success == FfmpegSucceeded(run)
           files == [concat |-> concat_file,
                     temp |-> IF cargs.music THEN run.left # "absent"
                              ELSE temp_output]
           left == cleanup_temp_files(files, TempFiles(cargs.music))
       IN /\ output_file' = IF cargs.music THEN output_file ELSE run.left
          /\ IF success /\ cargs.music
             THEN /\ concat_file' = files.concat
                  /\ temp_output' = files.temp
                  /\ cpc' = "music"
                  /\ UNCHANGED cexit
             ELSE /\ concat_file' = left.concat
                  /\ temp_output' = left.temp
                  /\ CombineExit(IF success THEN 0 ELSE 1)
    /\ UNCHANGED <<listing, cargs, video_files, lacking>>
    /\ UNCHANGED <<storeVars, runVars, obsVars, pollVars, orderVars,
                   submitVars, createVars>>

\* main(), lines 369-379 and 393-410: add_background_music writes the output
\* from the intermediate video, unless the music file is missing; the temp
\* files are cleaned up either way.
CombineMusic(run, music_exists) ==
    /\ cpc = "music"
    /\ LET success == music_exists /\ FfmpegSucceeded(run)
           left == cleanup_temp_files([concat |-> concat_file, temp |-> temp_output],
                                      TempFiles(cargs.music))
       IN /\ output_file' = IF music_exists THEN run.left ELSE output_file
          /\ concat_file' = left.concat
          /\ temp_output' = left.temp
          /\ CombineExit(IF success THEN 0 ELSE 1)
    /\ UNCHANGED <<listing, cargs, video_files, lacking, handed>>
    /\ UNCHANGED <<storeVars, runVars, obsVars, pollVars, orderVars,
                   submitVars, createVars>>

\* KeyboardInterrupt.  Inside the try block (lines 344-410) the handler of
\* lines 412-415 cleans up and exits with 1; the step that was under way
\* leaves nothing or a partial file at the path it was writing.  Before the
\* try block nothing catches it.
CombineInterrupt(left) ==
    /\ cpc \in {"start", "concat", "mux", "music"}
    /\ IF cpc = "start"
       THEN /\ CombineExit(130)
            /\ UNCHANGED <<concat_file, temp_output, output_file>>
       ELSE LET writes_temp == cpc = "mux" /\ cargs.music
                writes_output == (cpc = "mux" /\ ~cargs.music) \/ cpc = "music"
                files == [concat |-> concat_file \/ (cpc = "concat" /\ left = "partial"),
                          temp |-> IF writes_temp THEN left # "absent"
                                   ELSE temp_output]
                temp_files == IF cpc = "concat" THEN {"concat"}
                              ELSE TempFiles(cargs.music)
                kept == cleanup_temp_files(files, temp_files)
            IN /\ concat_file' = kept.concat
               /\ temp_output' = kept.temp
               /\ output_file' = IF writes_output THEN left ELSE output_file
               /\ CombineExit(1)
    /\ UNCHANGED <<listing, cargs, video_files, lacking, handed>>
    /\ UNCHANGED <<storeVars, runVars, obsVars, pollVars, orderVars,
                   submitVars, createVars>>

\* The name of the default --output, outputs/final_video.mp4, inside the default
\* --input-dir, outputs.
final_video ==
    <<"f", "i", "n", "a", "l", "_", "v", "i", "d", "e", "o", ".", "m", "p", "4">>

\* The tool is run once more with the same arguments after a run has ended.
\* With the default --input-dir and --output the final video of the earlier
\* run stands in the directory that glob('*.mp4') lists; glob gives no order,
\* so it is met at any position pos among the clips.
CombineRerun(pos) ==
    /\ cpc = "done"
    /\ LET clips_only == SelectSeq(listing, LAMBDA f : f # final_video)
       IN /\ pos \in 1..(Len(clips_only) + 1)
          /\ listing' = IF output_file = "absent" THEN clips_only
                        ELSE SubSeq(clips_only, 1, pos - 1) \o <<final_video>>
                             \o SubSeq(clips_only, pos, Len(clips_only))
    /\ cpc' = "start"
    /\ video_files' = <<>>
    /\ cexit' = -1
    /\ UNCHANGED <<cargs, concat_file, temp_output, output_file, lacking,
                   handed>>
    /\ UNCHANGED <<storeVars, runVars, obsVars, pollVars, orderVars,
                   submitVars, createVars>>

CombineNext ==
    \/ \E ok \in BOOLEAN : CombineFind(ok)
    \/ \E fault \in {"none", "open", "mkdir"} : CombineConcat(fault)
    \/ \E run \in FfmpegRuns : CombineMux(run)
    \/ \E run \in FfmpegRuns, music_exists \in BOOLEAN : CombineMusic(run, music_exists)
    \/ \E left \in {"absent", "partial"} : CombineInterrupt(left)
    \/ \E pos \in 1..(MaxFiles + 1) : CombineRerun(pos)

CombineSpec == CombineInit /\ [][CombineNext]_vars

\* ------------------------------------------------- tools/create_prompts.py
\* The scenes an analysis may list.  A text is the list of its pieces: words,
\* blanks, line ends and full stops.
AnalysisScenes ==
    [scene_number : 1..2,
     description : {<<"unboxing">>},
     duration : {3},
     environment : {<<"kitchen">>, <<" ", "Beach">>},
     lighting : {<<"Warm">>, <<"soft", " ">>},
     camera : {<<"Close-up">>, <<" ", "pan">>},
     action : {<<"walks", ".", " ", "stops">>, <<"waves">>}]

\* str.strip(): the text without the white space at its two ends.
RECURSIVE strip(_)
strip(text) ==
    LET white == {" ", "\n", "\n\n"}
    IN IF text = <<>> THEN <<>>
       ELSE IF text[1] \in white THEN strip(Tail(text))
       ELSE IF text[Len(text)] \in white THEN strip(SubSeq(text, 1, Len(text) - 1))
       ELSE text

\* Mutant: the lighting is written in lower case wherever it appears.
ScenePrompts_LowersLighting(scene, subject) ==
    [scene_number |-> scene.scene_number,
     scene_description |-> scene.description,
     duration |-> scene.duration,
     image_prompt |->
         strip(subject \o <<"\n\n", "Setting: ">> \o scene.environment
               \o <<"\n", "Lighting: ">> \o Lower(scene.lighting)
               \o <<"\n", "Camera: ">> \o scene.camera
               \o <<"\n\n", "Details: Sharp focus, natural colors, ">>
               \o Lower(scene.lighting)),
     video_prompt |->
         strip(<<"Camera Type: ">> \o scene.camera
               \o <<"\n\n", "Setting: ">> \o scene.environment
               \o <<"\n", "Lighting: ">> \o Lower(scene.lighting))]

\* The entry create_prompts appends for one scene, lines 122-160: the two
\* f-strings, stripped.
ScenePrompts(scene, subject) ==
    LET action == scene.action
        stops == {p \in 1..Len(action) : action[p] = "."}
        \* scene['action'].split('.')[0]
        pose == IF stops = {} THEN action
                ELSE SubSeq(action, 1, (CHOOSE p \in stops : \A q \in stops : p <= q) - 1)
        \* {scene['duration']}
        seconds == IF scene.duration = 3 THEN "3" ELSE "0"
    IN [scene_number |-> scene.scene_number,
        scene_description |-> scene.description,
        duration |-> scene.duration,
        image_prompt |->
            strip(subject \o <<"\n\n", "Setting: ">> \o scene.environment
                  \o <<"\n", "Lighting: ">> \o scene.lighting
                  \o <<"\n", "Camera: ">> \o scene.camera
                  \o <<"\n\n", "The subject is in this position/pose: ">> \o pose
                  \o <<".", "\n\n",
                       "Style: Photorealistic, high quality, professional photography",
                       "\n", "Details: Sharp focus, natural colors, ">>
                  \o Lower(scene.lighting)),
        video_prompt |->
            strip(<<"Camera Type: ">> \o scene.camera
                  \o <<"\n\n", "Main Movement: ">> \o subject \o <<" ">> \o action
                  \o <<"\n\n", "Setting: ">> \o scene.environment
                  \o <<"\n", "Lighting: ">> \o scene.lighting
                  \o <<"\n\n", "Motion details: ">> \o action
                  \o <<"\n", "Duration: ", seconds, " seconds", "\n\n",
                       "Style: Smooth, natural motion, high quality video, realistic physics">>)]

\* analysis['video_analysis']['scenes'] and the description describe_reference
\* returned (response.text.strip()).
CreateInit ==
    /\ StageInit
    /\ PollIdle
    /\ OrderIdle
    /\ SubmitIdle
    /\ CombineIdle
    /\ analysis \in UNION {[1..n -> AnalysisScenes] : n \in 0..MaxPrompts}
    /\ subject_description \in {<<>>, <<"A", " ", "red", " ", "bottle">>}
    /\ cpos = "loop"
    /\ prompts = <<>>
    /\ output_data = NoDocument

\* create_prompts, lines 121-160: one turn of the loop over the scenes.
CreateScene ==
    /\ cpos = "loop"
    /\ Len(prompts) < Len(analysis)
    /\ prompts' = Append(prompts, ScenePrompts(analysis[Len(prompts) + 1],
                                               subject_description))
    /\ UNCHANGED <<analysis, subject_description, cpos, output_data>>
    /\ UNCHANGED <<storeVars, runVars, obsVars, pollVars, orderVars,
                   submitVars, combineVars>>

\* save_prompts, lines 166-181, once create_prompts returned the list.
CreateSave ==
    /\ cpos = "loop"
    /\ Len(prompts) = Len(analysis)
    /\ output_data' = [total_scenes |-> Len(prompts), prompts |-> prompts]
    /\ cpos' = "saved"
    /\ UNCHANGED <<analysis, subject_description, prompts>>
    /\ UNCHANGED <<storeVars, runVars, obsVars, pollVars, orderVars,
                   submitVars, combineVars>>

CreateNext == CreateScene \/ CreateSave

CreateSpec == CreateInit /\ [][CreateNext]_vars

\* ------------------------------------------------------- the whole model
Next ==
    \/ \E config \in {load_config("log", env) : env \in Envs}, ok \in BOOLEAN :
           LogClear(config, ok)
    \/ \E prompt \in PromptEntries, ok \in BOOLEAN : LogCreate(prompt, ok)
    \/ LogSummary
    \/ \E config \in {load_config("image", env) : env \in Envs},
          model \in ImageModels, d, s, t, ok \in BOOLEAN :
           ImageLoad(config, model, d, s, t, ok)
    \/ \E raw \in RawAnswers : ImageGate(raw)
    \/ \E resp \in SubmitResponses : ImageCreateTask(resp)
    \/ \E res \in ImagePollResults : ImagePoll(res)
    \/ \E ok \in BOOLEAN : ImageUpdate(ok)
    \/ ImageSummary
    \/ \E config \in {load_config("video", env) : env \in Envs},
          d, s, t, sd, ok \in BOOLEAN :
           VideoLoad(config, d, s, t, sd, ok)
    \/ \E raw \in RawAnswers : VideoGate(raw)
    \/ \E resp \in SubmitResponses : VideoCreateTask(resp)
    \/ \E res \in VideoPollResults : VideoPoll(res)
    \/ \E ok \in BOOLEAN : VideoUpdate(ok)
    \/ \E ok \in BOOLEAN : VideoDownload(ok)
    \/ VideoSummary
    \/ ProcessExit

Spec == Init /\ [][Next]_vars

\* Ctrl-C while a tool of the store runs.  KeyboardInterrupt is not an
\* Exception: the except clauses of the loops (generate_images.py lines
\* 579-581, generate_videos.py lines 567-570) and of log_to_airtable.py do not
\* catch it, no tool of the three has a handler for it, and the interpreter
\* ends the process.  Nothing is undone.
Interrupt ==
    /\ stage # "idle"
    /\ pc # "done"
    /\ Exit(130)
    /\ UNCHANGED <<storeVars, stage, args, scenes, i, successful, failed,
                   actual_cost, result_urls, summary, obsVars>>
    /\ UNCHANGED <<pollVars, orderVars, submitVars,
                 combineVars, createVars>>

\* The tools as the operator runs them, one at a time (a tool of the store
\* starts only while combine_all.py is not running), and may interrupt them.
InterruptSpec ==
    (Init \/ CombineInit) /\ [][Next \/ Interrupt \/ CombineNext]_vars

\* ------------------------------------------------------------- the claims
Generating == stage \in {"image", "video"}

\* C1: the video stage selects a scene of the project if and only if the scene
\* has a start_image and no scene_video, and a scene for which an earlier run
\* of the video stage succeeded is not selected again.
C1_VideoSelection ==
    (stage = "video" /\ pc = "approve") =>
        /\ \A k \in RecIds :
             k \in Ids(scenes) <=>
                 /\ store[k].Project_Name = args.project_name
                 /\ store[k].start_image # <<>>
                 /\ store[k].scene_video = <<>>
        /\ Ids(scenes) \cap video_done = {}

\* A later run of the video stage selects a scene while another scene of the
\* project already went through the video stage.
C1_Witness ==
    /\ stage = "video"
    /\ pc = "approve"
    /\ scenes # <<>>
    /\ \E k \in video_done : store[k].Project_Name = args.project_name

\* C2: no generation job is submitted for a scene that already holds the
\* stage's artifact (start_image in the image stage, scene_video in the video
\* stage).
C2_NoRegeneration ==
    \A k \in 1..Len(requests) : ~requests[k].had

\* C3: a job is submitted only with dry-run off and skip-approval set or the
\* answer 'yes'/'y'; any other answer ends the run with no submission and no
\* store write.
C3_ApprovalGate ==
    /\ requests # <<>> =>
           ~args.dry_run /\ (args.skip_approval \/ answered = "yes")
    /\ answered = "other" =>
           pc = "done" /\ requests = <<>> /\ writes = 0

\* C4: a run with dry-run set submits no job and writes nothing to the store.
C4_DryRunNoEffect ==
    args.dry_run => requests = <<>> /\ writes = 0

\* C5: when the summary of a generation batch is reported, successful plus
\* failed equals the number of scenes of the batch.
C5_BatchAccounting ==
    (Generating /\ summary) => successful + failed = Len(scenes)

\* C6: the realized cost reported in the summary is the number of successful
\* scenes times the model's unit cost.
C6_RealizedCost ==
    (Generating /\ summary) =>
        actual_cost = successful *
            (IF stage = "image" THEN ImageCost(args.model) ELSE VideoCost(args.model))

\* A summary after a batch with successes and failures.
C6_Witness ==
    Generating /\ summary /\ successful >= 1 /\ failed >= 1 /\ actual_cost > 0

\* C8: a generation run in which a scene failed still goes through every
\* scene of its batch and reports the summary.
C8_FailureNeverAborts ==
    (Generating /\ failed > 0) =>
        /\ pc \in {"scene", "poll", "update", "download", "done"}
        /\ pc = "done" => summary /\ i = Len(scenes) + 1

\* The first scene of a batch failed, a later one succeeded, and the summary
\* was reported.
C8_Witness ==
    /\ Generating
    /\ summary
    /\ Len(scenes) >= 2
    /\ scenes[1].id \in failed_ids
    /\ successful >= 1

\* C9: the record of a scene counted as failed is as the run found it.
C9_FailedSceneUnchanged ==
    \A k \in 1..Len(scenes) :
        scenes[k].id \in failed_ids => store[scenes[k].id] = scenes[k].fields

\* C7: a job that is never told anything but a pending state ends with the
\* timeout exception; that exception is raised only with the budget (600 s
\* for images, 900 s for videos) used up, and it is not the exception of a
\* remote failure.
C7_Safety ==
    LET timed_out == outcome.msg = "Task did not complete within"
    IN /\ (ppc = "done" /\ only_pending) => timed_out
       /\ timed_out =>
              now - start_time >= (IF job = "image" THEN 600 ELSE 900)
       /\ (ppc = "done" /\ last_resp = "fail") =>
              ~timed_out /\ outcome.msg = "Generation failed"

C7_TimeoutAtBudget == [](C7_Safety) /\ <>(ppc = "done")

\* A job polled several times and told nothing but pending states has timed
\* out.
C7_Witness ==
    /\ ppc = "done"
    /\ only_pending
    /\ last_resp = "pending"
    /\ now - start_time >= 600
    /\ outcome = TimeoutRaised(job)

\* C10: after a transport error of a poll (an exception of the request or a
\* non-200 response) the loop sleeps 5 s and is back at its while test with
\* nothing raised; the start time never changes.
C10_TransportErrorContinues ==
    [][/\ start_time' = start_time
       /\ (ppc = "get" /\ last_resp' = "transport") =>
              /\ ppc' = "while"
              /\ outcome' = NoOutcome
              /\ \E latency \in Latencies : now' = now + latency + 5]_vars

\* The request after a transport error is being made.
C10_Witness ==
    /\ ppc = "get"
    /\ last_resp = "transport"
    /\ now - start_time >= 5

\* C11: once a poll was answered with a terminal state (success or fail), no
\* further status request is made for the job, whatever the answer's result
\* fields hold.
C11_NoPollAfterTerminal ==
    ~(ppc = "get" /\ last_resp \in {"success", "fail"})

\* C12: a submission the provider rejects is not retried: a run issues at most
\* one createTask request per scene, and the scene of a rejected request is
\* counted as failed and left behind.
C12_RejectedNotRetried ==
    /\ \A a, b \in 1..Len(requests) :
           requests[a].id = requests[b].id => a = b
    /\ (Generating /\ rejected) =>
           LET last == requests[Len(requests)].id
           IN /\ last \in failed_ids
              /\ \E k \in 1..(i - 1) : scenes[k].id = last

\* The provider rejected the submission of a scene, and the loop stands at the
\* next scene of the batch with one request made for each scene before it.
C12_Witness ==
    /\ Generating
    /\ rejected
    /\ pc = "scene"
    /\ i >= 2
    /\ i <= Len(scenes)
    /\ Len(requests) = i - 1

\* C13: a transport error of a submission is retried: the step in which
\* createTask raises a network exception does not count the scene as failed
\* unless the request was posted again first.
C13_SubmitTransportRetried ==
    [][((ImageCreateTask("network") \/ VideoCreateTask("network"))
           /\ requests' # requests) =>
          (failed' = failed \/ Len(requests') >= Len(requests) + 2)]_vars

\* C14: a record-store error aborts the batch: a store query that raises ends
\* the run, and after a store update that raises the loop stands at no
\* further scene; what the store held stays.
C14_StoreErrorAborts ==
    [][/\ ((\E config \in BOOLEAN, model \in ImageModels, d, s, t \in BOOLEAN :
                ImageLoad(config, model, d, s, t, FALSE))
            \/ (\E config \in BOOLEAN, d, s, sd \in BOOLEAN :
                    VideoLoad(config, d, s, FALSE, sd, FALSE))) =>
              (pc' = "done" /\ store' = store)
       /\ (ImageUpdate(FALSE) \/ VideoUpdate(FALSE)) =>
              ((pc' = "done" \/ i' > Len(scenes)) /\ store' = store)]_vars

\* C15: a createTask request that is not the first of its run is made only
\* after the loop slept the inter-scene delay (2 s for images, 5 s for
\* videos) since the request before it.
C15_InterSceneDelay ==
    [][(Generating /\ requests # <<>> /\ Len(requests') > Len(requests)) =>
          slept = (IF stage = "image" THEN 2 ELSE 5)]_vars

\* C17: whatever runs of the log, image and video stages came before, no
\* record of the store holds a scene_video without holding a start_image.
C17_VideoImpliesImage ==
    \A k \in RecIds : store[k].scene_video # <<>> => store[k].start_image # <<>>

\* A scene that holds a video went through a later run of the image stage,
\* which reported its summary.
C17_Witness ==
    /\ stage = "image"
    /\ summary
    /\ \E k \in Ids(scenes) :
           /\ store[k].scene_video # <<>>
           /\ \E r \in 1..Len(requests) : requests[r].id = k

\* C16: the loop takes the scenes of its batch in ascending order of their
\* scene numbers, scenes of equal number in the order the store returned
\* them, whatever order the store returned the rows in.
C16_AscendingSceneOrder ==
    LET Pos(r) == CHOOSE k \in 1..Len(returned) : returned[k] = r
    IN \A a, b \in 1..Len(visited) :
          a < b =>
              \/ visited[a].fields.scene < visited[b].fields.scene
              \/ /\ visited[a].fields.scene = visited[b].fields.scene
                 /\ Pos(visited[a]) < Pos(visited[b])

\* The model's max_prompt_length, and whether the prompt is longer.
Limit == MaxPromptLength(model_name)
Truncated == spc \in {"once", "twice"}
TooLong == StrLen(ptext) > Limit

RECURSIVE FullStops(_, _)
FullStops(s, offset) ==
    IF s = <<>> THEN {}
    ELSE (IF s[1].c = "." THEN (offset + 1)..(offset + s[1].n) ELSE {})
             \cup FullStops(Tail(s), offset + s[1].n)

\* The length of the whole leading sentences of the prompt that end within
\* the limit minus the safety margin of 50; 0 when none does.
KeptLength ==
    LET ends == {d \in FullStops(ptext, 0) : d <= Limit - 50}
    IN IF ends = {} THEN 0 ELSE CHOOSE d \in ends : \A e \in ends : e <= d

\* The first limit - 3 characters of the prompt followed by "...".
CutWithEllipsis == Norm(Take(ptext, Limit - 3) \o <<Run(".", 3)>>)

\* C19 as stated: of a prompt longer than the limit the result is the whole
\* leading sentences that end within the limit minus 50, and the first
\* limit - 3 characters followed by "..." only when no sentence fits (white
\* space at the ends of the result aside).
C19_SentenceBoundary ==
    (Truncated /\ TooLong) =>
        once = IF KeptLength > 0
               THEN Strip(Take(ptext, KeptLength))
               ELSE Strip(CutWithEllipsis)

\* C19 as amended: the leading sentences are kept when they come to at least
\* 50 characters; when no sentence fits or the kept ones come to fewer than
\* 50 characters the result is the first limit - 3 characters followed by
\* "..."; either result has the white space at its ends stripped.
C19_SentenceBoundaryOrTooShort ==
    (Truncated /\ TooLong) =>
        once = IF KeptLength >= 50
               THEN Strip(Take(ptext, KeptLength))
               ELSE Strip(CutWithEllipsis)

\* A prompt longer than the limit whose first sentence fits but is shorter
\* than 50 characters was truncated.
C19_Witness ==
    /\ Truncated
    /\ TooLong
    /\ KeptLength > 0
    /\ KeptLength < 50
    /\ once = Strip(CutWithEllipsis)

\* C20: a payload built for a model that does not support reference images
\* holds no image_input, one built for a model that does not support
\* resolution holds no resolution, and image_input is there only when a
\* reference URL was supplied and the model supports it.
C20_PayloadRespectsCapabilities ==
    (spc = "built" /\ model_name \in ImageModels) =>
        LET config == ImageModelConfig(model_name)
            keys == DOMAIN payload.input
        IN /\ ~config.supports_image_input => "image_input" \notin keys
           /\ ~config.supports_resolution => "resolution" \notin keys
           /\ "image_input" \in keys =>
                  /\ reference_image_url # "None"
                  /\ config.supports_image_input
                  /\ payload.input["image_input"] = <<reference_image_url>>

\* A payload was built for z-image with a reference image uploaded.
C20_Witness ==
    /\ spc = "built"
    /\ model_name = "z-image"
    /\ reference_image_url # "None"
    /\ DOMAIN payload.input = {"prompt", "aspect_ratio"}

Numbered(name) == get_scene_number(name).type = "int"

\* The files of the example: scene_1_z.mp4, scene_2_x.mp4, scene_10_y.mp4.
Scene1z == <<"s", "c", "e", "n", "e", "_", "1", "_", "z", ".", "m", "p", "4">>
Scene2x == <<"s", "c", "e", "n", "e", "_", "2", "_", "x", ".", "m", "p", "4">>
Scene10y == <<"s", "c", "e", "n", "e", "_", "1", "0", "_", "y", ".", "m", "p", "4">>

\* C21: the files find_video_files returns whose names hold 'scene' followed
\* by digits stand in the order of the numbers those digits spell, not in the
\* order of their text: scene_2_x.mp4, scene_10_y.mp4 and scene_1_z.mp4, in
\* whatever order the directory lists them, come back as scene_1_z, scene_2_x,
\* scene_10_y; and every file of the directory that passes the project filter
\* is in the list.
C21_NumericOrder ==
    /\ (/\ cpc \in {"concat", "mux", "music"}
        /\ cargs.project_name = <<>>
        /\ Len(listing) = 3
        /\ {listing[k] : k \in 1..Len(listing)} = {Scene1z, Scene2x, Scene10y})
       => video_files = <<Scene1z, Scene2x, Scene10y>>
    /\ \A j, k \in 1..Len(video_files) :
           (j < k /\ Numbered(video_files[j]) /\ Numbered(video_files[k]))
           => get_scene_number(video_files[j]).int
              <= get_scene_number(video_files[k]).int
    /\ video_files # <<>>
       => {video_files[k] : k \in 1..Len(video_files)}
          = {ProjectFilter(listing, cargs.project_name)[k] :
                k \in 1..Len(ProjectFilter(listing, cargs.project_name))}

C21_Witness ==
    /\ listing = <<Scene2x, Scene10y, Scene1z>>
    /\ video_files = <<Scene1z, Scene2x, Scene10y>>
    /\ cpc = "mux"

\* C22: whatever the directory holds, find_video_files returns every file of
\* it, the files with a scene number first in the order of their numbers and
\* the files without one after them in the order of their names.
C22_NumberedThenAlphabetical ==
    [][(CombineFind(TRUE) /\ ProjectFilter(listing, cargs.project_name) # <<>>)
       => /\ Len(video_files') = Len(ProjectFilter(listing, cargs.project_name))
          /\ \A j, k \in 1..Len(video_files') :
                 j < k =>
                     IF Numbered(video_files'[j])
                     THEN Numbered(video_files'[k])
                          => get_scene_number(video_files'[j]).int
                             <= get_scene_number(video_files'[k]).int
                     ELSE /\ ~Numbered(video_files'[k])
                          /\ ~StrLess(video_files'[k], video_files'[j])]_vars

\* C23: however the combine operation ends once its temporary artifacts were
\* created, neither the concat list nor the temp_ intermediate video is left
\* behind, and after a failed outcome no partial file stands at the final
\* output path.
C23_NoArtifactLeftBehind ==
    cpc = "done"
    => /\ ~concat_file
       /\ ~temp_output
       /\ cexit # 0 => output_file # "partial"

\* C24: clips are handed to the muxing step only when every scene of the
\* project holds a video reference.
C24_CombineOnlyWhenAllReady == handed # <<>> => lacking = {}

\* C25: when the logging stage has run with N prompts and project name P, the
\* table holds exactly N rows tagged P, all of them created by this run, one
\* per prompt and without image or video reference: every row tagged P that
\* was there before is gone, also when a delete or a create call failed.
C25_LogReplacesProject ==
    (stage = "log" /\ summary)
    => LET rows == {k \in RecIds : store[k].Project_Name = args.project_name}
       IN /\ Cardinality(rows) = i
          /\ rows = (next_id - i)..(next_id - 1)
          /\ \A k \in rows : store[k].start_image = <<>> /\ store[k].scene_video = <<>>

\* sub stands in text, piece by piece.
Includes(text, sub) ==
    \E p \in 1..Len(text) :
        p + Len(sub) - 1 <= Len(text) /\ SubSeq(text, p, p + Len(sub) - 1) = sub

\* C26: for an analysis of N scenes create_prompts returns N entries in the
\* order of the scenes, entry k with scene k's scene_number, description and
\* duration and with an image prompt and a video prompt that each hold scene
\* k's environment, lighting and camera text as written; the saved document
\* holds these entries and total_scenes = N.
C26_OnePromptPairPerScene ==
    /\ Len(prompts) <= Len(analysis)
    /\ \A k \in 1..Len(prompts) :
           /\ prompts[k].scene_number = analysis[k].scene_number
           /\ prompts[k].scene_description = analysis[k].description
           /\ prompts[k].duration = analysis[k].duration
           /\ \A text \in {prompts[k].image_prompt, prompts[k].video_prompt} :
                  /\ Includes(text, analysis[k].environment)
                  /\ Includes(text, analysis[k].lighting)
                  /\ Includes(text, analysis[k].camera)
    /\ cpos = "saved"
       => /\ Len(output_data.prompts) = Len(analysis)
          /\ output_data.prompts = prompts
          /\ output_data.total_scenes = Len(analysis)

C26_Witness ==
    /\ cpos = "saved"
    /\ Len(analysis) = 2
    /\ analysis[1].scene_number = 2
    /\ analysis[2].scene_number = 1
    /\ analysis[1].lighting = <<"Warm">>
    /\ analysis[2].camera = <<" ", "pan">>
    /\ output_data.total_scenes = 2

\* A setting the tool requires is missing.
Missing(tool, env) ==
    \/ ~env.AIRTABLE_BASE_ID
    \/ ~(env.AIRTABLE_API_TOKEN \/ env.AIRTABLE_API_KEY)
    \/ (tool # "log" /\ ~env.KIE_API_KEY)

\* C27: a stage started while a required credential or setting is missing ends
\* with exit code 1 and has made no remote call and no store write: the table
\* is as it was, nothing was read from it and nothing was sent to the
\* provider.
C27_ConfigMissingExitsFirst ==
    [][(stage = "idle" /\ stage' # "idle") =>
       \/ /\ pc' = "done"
          /\ exit_code' = 1
          /\ UNCHANGED <<storeVars, obsVars, scenes>>
       \/ \A env \in Envs, ok \in BOOLEAN :
              Missing(stage', env) =>
              ~CASE stage' = "log" -> LogClear(load_config("log", env), ok)
                 [] stage' = "image" ->
                        ImageLoad(load_config("image", env), args'.model,
                                  args'.dry_run, args'.skip_approval,
                                  args'.test_mode, ok)
                 [] stage' = "video" ->
                        VideoLoad(load_config("video", env), args'.dry_run,
                                  args'.skip_approval, args'.test_mode,
                                  args'.skip_download, ok)]_vars

C27_Witness ==
    /\ stage = "log"
    /\ pc = "done"
    /\ exit_code = 1
    /\ \E k \in RecIds : store[k].Project_Name = PROJECT

\* C28: a generator that ended with exit code 0 succeeded: the operator did
\* not refuse at the approval prompt, and if the loop ran to its summary at
\* least one scene succeeded.
C28_ExitCodeReportsOutcome ==
    (Generating /\ pc = "done" /\ exit_code = 0) =>
        /\ answered # "other"
        /\ ~(summary /\ successful = 0)

Completed ==
    {scenes[k].id : k \in {n \in 1..Len(scenes) : n < i}} \ failed_ids

C31_WriteFirstUrlAfterSuccess ==
    [][/\ (Generating /\ store' # store) =>
              /\ pc = "update"
              /\ result_urls # <<>>
              /\ store' = IF stage = "image"
                          THEN [store EXCEPT ![scenes[i].id].start_image =
                                                 <<result_urls[1]>>]
                          ELSE [store EXCEPT ![scenes[i].id].scene_video =
                                                 <<result_urls[1]>>]
       /\ (\/ ImagePoll([kind |-> "no_urls", urls |-> <<>>])
           \/ VideoPoll([kind |-> "urls", urls |-> <<>>])) =>
              /\ store' = store
              /\ writes' = writes
              /\ failed' = failed + 1
              /\ scenes[i].id \in failed_ids'
              /\ i' = i + 1
              /\ pc' = "scene"]_vars

C31_Witness ==
    /\ stage = "image"
    /\ failed_ids # {}
    /\ \E k \in 1..Len(scenes) :
           /\ k < i
           /\ scenes[k].id \notin failed_ids
           /\ store[scenes[k].id].start_image = <<1>>
    /\ writes >= 1

\* The cadence the tool of job j is to keep at el seconds of elapsed time.
Tier(j, el) ==
    IF j = "image"
    THEN (IF el < 30 THEN 3 ELSE IF el < 120 THEN 5 ELSE 10)
    ELSE (IF el < 60 THEN 10 ELSE IF el < 180 THEN 15 ELSE 30)

\* C32: after a status request answered with a pending state the loop sleeps
\* the interval of its tier: 3, 5 or 10 seconds for images with the bounds 30
\* and 120, 10, 15 or 30 seconds for videos with the bounds 60 and 180, taken
\* at the elapsed time the tool computed in that turn; the interval never
\* gets shorter as elapsed time grows and takes exactly three values.
C32_TieredCadence ==
    [][\A resp \in PendingStates, latency \in Latencies :
           PollGet(resp, latency) =>
               LET el == IF job = "image" THEN (now + latency) - start_time
                         ELSE now - start_time
               IN /\ now' = now + latency + Tier(job, el)
                  /\ ppc' = "while"
                  /\ now = start_time =>
                         LET sleeps ==
                                 IF job = "image"
                                 THEN [e \in 0..ImageMaxWait |-> ImagePollSleep(e)]
                                 ELSE [e \in 0..VideoMaxWait |-> VideoPollSleep(e)]
                         IN /\ \A e \in DOMAIN sleeps :
                                    e >= 1 => sleeps[e - 1] <= sleeps[e]
                            /\ Cardinality({sleeps[e] : e \in DOMAIN sleeps}) = 3]_vars

C32_Witness ==
    /\ ppc = "while"
    /\ last_resp = "pending"
    /\ only_pending
    /\ now - start_time >= 200

\* C33: a status answer whose state is none of waiting, queuing, generating,
\* success and fail, or that holds no state, does not end poll_task_status:
\* nothing is raised or returned and the loop is back at its while test.
C33_UnknownStateKeepsPolling ==
    [][(ppc = "get" /\ last_resp' = "other") =>
          (ppc' = "while" /\ outcome' = NoOutcome /\ now' > now)]_vars

\* C34: the batch a generator executes is the batch it estimated.  From the
\* cost estimate to the end of the run the scene list stays as it was loaded,
\* the run never posts more createTask requests than the list has scenes, and
\* the cost it counts and reports never exceeds the estimate, the number of
\* scenes times the model's unit cost.
C34_BatchIsTheEstimatedBatch ==
    [][Generating =>
          LET cost == IF stage = "image" THEN ImageCost(args.model)
                      ELSE VideoCost(args.model)
              total_cost == Len(scenes) * cost
          IN /\ stage' = stage => scenes' = scenes
             /\ Len(requests') <= Len(scenes)
             /\ actual_cost' <= total_cost
             /\ successful' * cost <= total_cost]_vars

C34_Witness ==
    /\ Generating
    /\ answered = "yes"
    /\ summary
    /\ Len(scenes) >= 2
    /\ Len(requests) = Len(scenes)
    /\ actual_cost > 0
    /\ failed >= 1

\* C35: each tool changes only its own part of the table.  A step of the image
\* tool changes at most the start_image of the scene at hand, a step of the
\* video tool at most the scene_video of the scene at hand, neither creates or
\* deletes a row; the clear step of the logging tool changes only rows tagged
\* with the project name, which it deletes.
C35_StageWritesOwnFieldOnly ==
    [][/\ stage' \in {"image", "video"} =>
              /\ next_id' = next_id
              /\ \A k \in RecIds :
                     store'[k] # store[k] =>
                         /\ stage = stage'
                         /\ k = scenes[i].id
                         /\ store'[k] =
                                IF stage = "image"
                                THEN [store[k] EXCEPT !.start_image = store'[k].start_image]
                                ELSE [store[k] EXCEPT !.scene_video = store'[k].scene_video]
       /\ (stage = "idle" /\ stage' = "log") =>
              \A k \in RecIds :
                  store'[k] # store[k] =>
                      (store[k].Project_Name = args'.project_name /\ store'[k] = NoRecord)]_vars

\* C36: the number in the name of a downloaded clip identifies its scene: no
\* two clips of different scenes of the project, both still rows of the
\* table, carry the same number.
C36_ClipNumberIdentifiesScene ==
    \A a, b \in clips :
        (/\ a.n = b.n
         /\ store[a.id].Project_Name = PROJECT
         /\ store[b.id].Project_Name = PROJECT) => a.id = b.id

\* C37: when the combine operation is run again with default arguments after a
\* run that handed a list of clips to FFmpeg and left a file at the default
\* output path, the second run selects the same ordered list of clips as the
\* first, and the final video of the first run is not among them.
C37_RerunSelectsSameClips ==
    [][(/\ CombineFind(TRUE)
        /\ cargs = [project_name |-> <<>>, music |-> FALSE, dry_run |-> FALSE]
        /\ handed # <<>>
        /\ output_file # "absent")
       => /\ video_files' = handed
          /\ \A k \in 1..Len(video_files') : video_files'[k] # final_video]_vars

\* C38: every invocation of poll_task_status ends, whatever the answers and
\* transport errors of its requests, and it ends by returning or by raising.
\* A request is only made with less than the budget elapsed, and every turn of
\* the loop that does not end the call advances the clock by at least the
\* shortest sleep (3 s for images, 5 s for videos): the k-th request is made
\* no earlier than (k - 1) shortest sleeps after the start and before the
\* budget is used up, so no more than budget / shortest sleep requests are
\* made (200 for images, 180 for videos).
C38_PollTerminates ==
    /\ [][ppc = "get" =>
             /\ now - start_time < MaxWait(job)
             /\ ppc' = "while" =>
                    /\ now' - now >= (IF job = "image" THEN 3 ELSE 5)
                    /\ outcome' = NoOutcome
             /\ ppc' = "done" =>
                    \/ outcome'.exc # ""
                    \/ outcome'.exc = "" /\ outcome'.msg = ""]_vars
    /\ <>(ppc = "done")

\* A video job answered by transport errors only, each request taking no time,
\* has made a request every 5 s and has ended at its budget of 900 s.
C38_Witness ==
    /\ job = "video"
    /\ ppc = "done"
    /\ last_resp = "transport"
    /\ now - start_time = VideoMaxWait
    /\ outcome = TimeoutRaised("video")

====
